---------------------------- MODULE Spec2Model ----------------------------
(***************************************************************************)
(* Identity store, conflict resolver and merge engine of scivalidate:      *)
(* DatabaseManager.store_researcher / store_identifiers and friends        *)
(* (src/src/database/database_populator_4.py) and cleanup_database         *)
(* (src/src/database/database_cleanup.py), over the SQLite schema that     *)
(* DatabaseManager._initialize_tables creates.                             *)
(*                                                                         *)
(* A table is a set of rows (records).  A statement that can fail with     *)
(* sqlite3.IntegrityError is an operator returning [ok, ...]: ok = FALSE   *)
(* means the statement raised and changed nothing.  A merge candidate's    *)
(* reason 'ORCID conflict: <orcid>' is kept as the ORCID value.            *)
(***************************************************************************)
EXTENDS Integers, Sequences, FiniteSets, TLC

(***************************************************************************)
(* Bounds of the model.                                                    *)
(***************************************************************************)
\* number of uuids that store_researcher can draw (author records ever made)
MaxAuthors == 3
\* cap on author_collaborations.collaboration_count
MaxCollabCount == 2

(***************************************************************************)
(* Values.                                                                 *)
(***************************************************************************)
\* SQL NULL / Python None
NULL == "<null>"
\* SQL NULL in the INTEGER columns authors.h_index and authors.total_citations
NoMetric == -1
\* what store_researcher "returns" when the IntegrityError is re-raised
\* (no uuid)
RAISED == 0

\* uuid4 values; their order is the lexicographic order of the ids
Ids == 1..MaxAuthors

IFNULL(v, dflt) == IF v = NULL THEN dflt ELSE v

\* Python truthiness of an optional string: None and '' are false
Truthy(v) == v # NULL /\ v # ""

(***************************************************************************)
(* Schema: authors.                                                        *)
(***************************************************************************)
\* the generated column authors.display_name
display_name(r) ==
    IF r.middle_names # NULL
    THEN r.given_name \o " " \o r.middle_names \o " " \o r.family_name
    ELSE r.given_name \o " " \o r.family_name

idx_authors_unique_name_components(r) ==
    <<r.given_name, r.family_name, IFNULL(r.institution, "")>>

idx_authors_unique_name_inst(r) ==
    <<display_name(r), IFNULL(r.institution, "")>>

AuthorIds(d) == {r.id : r \in d.authors}

\* the PRIMARY KEY and the two UNIQUE indices of authors hold of a table
AuthorsConstraints(A) ==
    \A r1 \in A : \A r2 \in A :
        r1 # r2 =>
            /\ r1.id # r2.id
            /\ idx_authors_unique_name_components(r1)
                   # idx_authors_unique_name_components(r2)
            /\ idx_authors_unique_name_inst(r1) # idx_authors_unique_name_inst(r2)

(***************************************************************************)
(* Schema: author_identifiers.                                             *)
(***************************************************************************)
\* the schema without the partial UNIQUE index on ORCID values
idx_unique_orcid_absent(T) == TRUE

\* the partial UNIQUE index on ORCID values
idx_unique_orcid(T) ==
    \A r1 \in T : \A r2 \in T :
        (r1 # r2 /\ r1.identifier_type = "orcid" /\ r2.identifier_type = "orcid")
            => r1.identifier_value # r2.identifier_value

\* PRIMARY KEY (author_id, identifier_type)
IdentifiersPK(T) ==
    \A r1 \in T : \A r2 \in T :
        (r1 # r2) => <<r1.author_id, r1.identifier_type>>
                        # <<r2.author_id, r2.identifier_type>>

\* INSERT INTO author_identifiers on a DatabaseManager connection
\* (PRAGMA foreign_keys = ON)
InsertIdentifier(d, row) ==
    LET T == d.author_identifiers \cup {row}
    IN  IF /\ row \notin d.author_identifiers
           /\ IdentifiersPK(T)
           /\ idx_unique_orcid(T)
           /\ row.author_id \in AuthorIds(d)
        THEN [ok |-> TRUE, db |-> [d EXCEPT !.author_identifiers = T]]
        ELSE [ok |-> FALSE, db |-> d]

\* UPDATE author_identifiers SET <cols> WHERE author_id = ? AND identifier_type = ?
\* (cols: the record of the columns set)
UpdateIdentifier(d, author_id, type, cols) ==
    LET T == {IF r.author_id = author_id /\ r.identifier_type = type
              THEN [c \in DOMAIN r |-> IF c \in DOMAIN cols THEN cols[c] ELSE r[c]]
              ELSE r : r \in d.author_identifiers}
    IN  IF idx_unique_orcid(T)
        THEN [ok |-> TRUE, db |-> [d EXCEPT !.author_identifiers = T]]
        ELSE [ok |-> FALSE, db |-> d]

(***************************************************************************)
(* Schema: merge_candidates.                                               *)
(***************************************************************************)
\* INSERT INTO merge_candidates: UNIQUE(primary_author_id, secondary_author_id)
\* and the two foreign keys to authors; status defaults to 'pending'
InsertMergeCandidate(d, primary, secondary, reason, confidence) ==
    IF /\ \A c \in d.merge_candidates :
              <<c.primary_author_id, c.secondary_author_id>> # <<primary, secondary>>
       /\ primary \in AuthorIds(d)
       /\ secondary \in AuthorIds(d)
    THEN [ok |-> TRUE,
          db |-> [d EXCEPT !.merge_candidates = @ \cup
                    {[primary_author_id |-> primary,
                      secondary_author_id |-> secondary,
                      reason |-> reason,
                      confidence |-> confidence,
                      status |-> "pending"]}]]
    ELSE [ok |-> FALSE, db |-> d]

(***************************************************************************)
(* DatabaseManager.store_identifiers                                       *)
(***************************************************************************)
MatchStatus == {"EXACT_MATCH_WITH_INSTITUTION", "EXACT_MATCH_DISTINCTIVE",
                "EXACT_MATCH_COMMON_NAME", "MULTIPLE_MATCHES", "NO_MATCH", "ERROR"}

\* the fixed table from match_status to (status, confidence, method)
verification_info(match_status) ==
    CASE match_status = "EXACT_MATCH_WITH_INSTITUTION"
             -> <<"verified", "1.0", "institutional_match">>
      [] match_status = "EXACT_MATCH_DISTINCTIVE" -> <<"probable", "0.9", "distinctive_name">>
      [] match_status = "EXACT_MATCH_COMMON_NAME" -> <<"probable", "0.7", "common_name">>
      [] match_status = "MULTIPLE_MATCHES" -> <<"ambiguous", "0.3", "multiple_matches">>
      [] match_status = "NO_MATCH" -> <<"unverified", "0.0", "no_match">>
      [] match_status = "ERROR" -> <<"error", "0.0", "api_error">>
      [] OTHER -> <<"unverified", "0.0", "direct_input">>

\* the conflict query without "AND author_id != ?": every holder counts
existing_orcid_any_holder(d, orcid, author_id) ==
    {r.author_id : r \in {x \in d.author_identifiers :
                             /\ x.identifier_type = "orcid"
                             /\ x.identifier_value = orcid}}

\* the authors other than author_id that hold the ORCID value
existing_orcid(d, orcid, author_id) ==
    {r.author_id : r \in {x \in d.author_identifiers :
                             /\ x.identifier_type = "orcid"
                             /\ x.identifier_value = orcid
                             /\ x.author_id # author_id}}

\* the email upsert: INSERT, on IntegrityError UPDATE the value
store_email(d, author_id, email) ==
    IF ~Truthy(email) THEN d
    ELSE LET ins == InsertIdentifier(d, [author_id |-> author_id,
                                         identifier_type |-> "email",
                                         identifier_value |-> email,
                                         verification_status |-> "unverified",
                                         confidence_score |-> NULL,
                                         verification_method |-> NULL])
         IN  IF ins.ok THEN ins.db
             ELSE UpdateIdentifier(d, author_id, "email",
                                   [identifier_value |-> email]).db

\* the candidate recorded with the new record as primary
record_merge_candidate_reversed(d, primary, author_id, orcid) ==
    InsertMergeCandidate(d, author_id, primary, orcid, "0.9").db

\* the branch taken when another author holds the ORCID: record the merge
\* candidate (an IntegrityError is logged and dropped)
record_merge_candidate(d, primary, author_id, orcid) ==
    InsertMergeCandidate(d, primary, author_id, orcid, "0.9").db

\* the ORCID INSERT alone, without the UPDATE that follows an IntegrityError
store_orcid_insert_only(d, author_id, orcid, match_status) ==
    LET info == verification_info(match_status)
        ins == InsertIdentifier(d, [author_id |-> author_id,
                                    identifier_type |-> "orcid",
                                    identifier_value |-> orcid,
                                    verification_status |-> info[1],
                                    confidence_score |-> info[2],
                                    verification_method |-> info[3]])
    IN  [ok |-> TRUE, db |-> ins.db]

\* the ORCID upsert.  ok = FALSE: the UPDATE raised, which the outer
\* "except sqlite3.Error" logs, ending the call before the email is stored
store_orcid(d, author_id, orcid, match_status) ==
    LET info == verification_info(match_status)
        ins == InsertIdentifier(d, [author_id |-> author_id,
                                    identifier_type |-> "orcid",
                                    identifier_value |-> orcid,
                                    verification_status |-> info[1],
                                    confidence_score |-> info[2],
                                    verification_method |-> info[3]])
    IN  IF ins.ok THEN ins
        ELSE UpdateIdentifier(d, author_id, "orcid",
                              [identifier_value |-> orcid,
                               verification_status |-> info[1],
                               confidence_score |-> info[2],
                               verification_method |-> info[3]])

\* what store_identifiers does once the conflict query has returned `owners`
store_identifiers_after(d, owners, author_id, orcid, email, match_status) ==
    IF Truthy(orcid)
    THEN IF owners # {}
         THEN store_email(record_merge_candidate(
                              d, CHOOSE p \in owners : TRUE, author_id, orcid),
                          author_id, email)
         ELSE LET up == store_orcid(d, author_id, orcid, match_status)
              IN  IF up.ok THEN store_email(up.db, author_id, email) ELSE d
    ELSE store_email(d, author_id, email)

store_identifiers(d, author_id, orcid, email, match_status) ==
    store_identifiers_after(d, existing_orcid(d, orcid, author_id),
                            author_id, orcid, email, match_status)


(***************************************************************************)
(* DatabaseManager.store_researcher                                        *)
(***************************************************************************)
\* SELECT id FROM authors WHERE given_name = ? AND family_name = ?
\*   AND (institution = ? OR (institution IS NULL AND ? IS NULL))
lookup_author(d, researcher) ==
    {r.id : r \in {x \in d.authors :
        /\ x.given_name = researcher.given_name
        /\ x.family_name = researcher.family_name
        /\ \/ /\ x.institution # NULL
              /\ researcher.institution # NULL
              /\ x.institution = researcher.institution
           \/ /\ x.institution = NULL
              /\ researcher.institution = NULL}}

\* INSERT INTO authors (...)
InsertAuthor(d, row) ==
    LET A == d.authors \cup {row}
    IN  IF row \notin d.authors /\ AuthorsConstraints(A)
        THEN [ok |-> TRUE, db |-> [d EXCEPT !.authors = A]]
        ELSE [ok |-> FALSE, db |-> d]

\* an UPDATE that sets every updatable column to the payload's value
UpdateAuthor_all_columns(d, author_id, researcher) ==
    LET A == {IF r.id = author_id
              THEN [r EXCEPT !.institution = researcher.institution,
                             !.middle_names = researcher.middle_names]
              ELSE r : r \in d.authors}
    IN  IF AuthorsConstraints(A)
        THEN [ok |-> TRUE, db |-> [d EXCEPT !.authors = A]]
        ELSE [ok |-> FALSE, db |-> d]

\* UPDATE authors SET <the non-null fields supplied> WHERE id = ?
UpdateAuthor(d, author_id, researcher) ==
    LET A == {IF r.id = author_id
              THEN [r EXCEPT
                      !.institution = IF researcher.institution # NULL
                                      THEN researcher.institution ELSE @,
                      !.middle_names = IF researcher.middle_names # NULL
                                       THEN researcher.middle_names ELSE @]
              ELSE r : r \in d.authors}
    IN  IF AuthorsConstraints(A)
        THEN [ok |-> TRUE, db |-> [d EXCEPT !.authors = A]]
        ELSE [ok |-> FALSE, db |-> d]

\* the handler of sqlite3.IntegrityError: look the key up again; return the
\* row found, re-raise when there is none
requery_or_raise(d, researcher) ==
    LET again == lookup_author(d, researcher)
    IN  [db |-> d,
         ret |-> IF again # {} THEN CHOOSE i \in again : TRUE ELSE RAISED]

\* the ORCID rows of an author
orcid_rows(d, author_id) ==
    {r \in d.author_identifiers :
        r.author_id = author_id /\ r.identifier_type = "orcid"}

\* store_researcher once its first lookup has returned `existing`;
\* new_id is the uuid4 drawn for a new record
store_researcher_after(d, existing, researcher, new_id) ==
    IF existing # {}
    THEN LET author_id == CHOOSE i \in existing : TRUE
             up == IF researcher.institution # NULL \/ researcher.middle_names # NULL
                   THEN UpdateAuthor(d, author_id, researcher)
                   ELSE [ok |-> TRUE, db |-> d]
         IN  IF ~up.ok THEN requery_or_raise(d, researcher)
             ELSE [db |-> IF Truthy(researcher.orcid) /\ orcid_rows(up.db, author_id) = {}
                          THEN store_identifiers(up.db, author_id, researcher.orcid,
                                                 researcher.email, NULL)
                          ELSE up.db,
                   ret |-> author_id]
    ELSE LET ins == InsertAuthor(d, [id |-> new_id,
                                     given_name |-> researcher.given_name,
                                     family_name |-> researcher.family_name,
                                     middle_names |-> researcher.middle_names,
                                     institution |-> researcher.institution,
                                     h_index |-> NoMetric,
                                     total_citations |-> NoMetric])
         IN  IF ~ins.ok THEN requery_or_raise(d, researcher)
             ELSE [db |-> IF Truthy(researcher.orcid)
                          THEN store_identifiers(ins.db, new_id, researcher.orcid,
                                                 researcher.email, NULL)
                          ELSE ins.db,
                   ret |-> new_id]

store_researcher(d, researcher, new_id) ==
    store_researcher_after(d, lookup_author(d, researcher), researcher, new_id)

(***************************************************************************)
(* DatabaseManager: publications, authorships, field scores, collaboration *)
(* network (connection with PRAGMA foreign_keys = ON).                     *)
(***************************************************************************)
\* the INSERT of store_publication for a payload not stored yet, under the
\* uuid4 pub_id
\* the DOIs of the publication payloads
Dois == {"d1", "d2"}

\* f"Publication with DOI: {doi}"
placeholder_title(doi) == "Publication with DOI: " \o doi

\* title.startswith("Publication with DOI:"), over the titles of the model
startswith_placeholder(title) == title \in {placeholder_title(doi) : doi \in Dois}

\* idx_publications_unique_doi: UNIQUE (doi) WHERE doi IS NOT NULL
idx_publications_unique_doi(T) ==
    \A r1, r2 \in T : (r1.doi # NULL /\ r1.doi = r2.doi) => r1 = r2

\* the UPDATE of an existing publication that stores the payload's citation
\* count whether or not it is higher
update_citations_always(existing, new_citation_count) ==
    new_citation_count

\* "if new_citation_count > (existing['citation_count'] or 0)": the stored
\* count after the UPDATE
update_citations(existing, new_citation_count) ==
    IF new_citation_count > existing.citation_count
    THEN new_citation_count
    ELSE existing.citation_count

\* a skip test that asks for a title whether or not there is a DOI
skipped_without_title(pub_data) ==
    ~Truthy(pub_data.title)

\* "elif not pub_data.get('title') and not doi": the payload is skipped
skipped(pub_data) ==
    ~Truthy(pub_data.title) /\ ~Truthy(pub_data.doi)

\* store_publication(pub_data): ret is the id returned, NULL for None
store_publication(d, pub_data, new_id) ==
    LET doi == pub_data.doi
        title == IF ~Truthy(pub_data.title) /\ Truthy(doi)
                 THEN placeholder_title(doi)
                 ELSE pub_data.title
        found == {r \in d.publications : Truthy(doi) /\ r.doi = doi}
    IN  IF skipped(pub_data)
        THEN [db |-> d, ret |-> NULL]
        ELSE IF found # {}
        THEN LET existing == CHOOSE r \in found : TRUE
                 updated == [existing EXCEPT
                     !.title = IF /\ Truthy(title)
                                  /\ Truthy(existing.title)
                                  /\ startswith_placeholder(existing.title)
                               THEN title
                               ELSE @,
                     !.citation_count =
                         update_citations(existing, pub_data.citations)]
             IN  [db |-> [d EXCEPT !.publications =
                                (@ \ {existing}) \cup {updated}],
                  ret |-> existing.id]
        ELSE LET row == [id |-> new_id, title |-> title, doi |-> doi,
                         citation_count |-> pub_data.citations]
             IN  IF idx_publications_unique_doi(d.publications \cup {row})
                 THEN [db |-> [d EXCEPT !.publications = @ \cup {row}],
                       ret |-> new_id]
                 ELSE [db |-> d,
                       ret |-> (CHOOSE r \in d.publications : r.doi = doi).id]

PublicationIds(d) == {r.id : r \in d.publications}

\* INSERT INTO author_publications: PRIMARY KEY (author_id, publication_id)
\* and both foreign keys; ok = FALSE is the IntegrityError the caller gets
store_author_publication(d, author_id, pub_id) ==
    IF /\ \A r \in d.author_publications :
              <<r.author_id, r.publication_id>> # <<author_id, pub_id>>
       /\ author_id \in AuthorIds(d)
       /\ pub_id \in PublicationIds(d)
    THEN [ok |-> TRUE,
          db |-> [d EXCEPT !.author_publications = @ \cup
                    {[author_id |-> author_id, publication_id |-> pub_id]}]]
    ELSE [ok |-> FALSE, db |-> d]

\* AcademicFieldManager._initialize_fields_in_db: DELETE FROM fields (which
\* cascades to author_fields), then INSERT the loaded fields under new ids
initialize_fields_in_db(d, loaded) ==
    [d EXCEPT !.fields = loaded, !.author_fields = {}]

\* one transaction: DELETE the author's rows, INSERT one row per score;
\* a foreign-key failure rolls the whole transaction back
store_field_scores(d, author_id, scores) ==
    IF (scores = {}) \/ (author_id \in AuthorIds(d) /\ scores \subseteq d.fields)
    THEN [ok |-> TRUE,
          db |-> [d EXCEPT !.author_fields =
                    {r \in @ : r.author_id # author_id} \cup
                    {[author_id |-> author_id, field_id |-> f,
                      expertise_score |-> "0.5"] : f \in scores}]]
    ELSE [ok |-> FALSE, db |-> d]

Min(a, b) == IF a <= b THEN a ELSE b
Max(a, b) == IF a >= b THEN a ELSE b

\* the pair of ids taken in the order of the call
pair_as_given(a1, a2) ==
    <<a1, a2>>

\* "if author1_id >= author2_id: author1_id, author2_id = author2_id,
\* author1_id"
ordered_pair(a1, a2) ==
    IF a1 >= a2 THEN <<a2, a1>> ELSE <<a1, a2>>

\* update_collaboration_network; an sqlite3.Error (the foreign keys of a new
\* row) is logged and dropped
update_collaboration_network(d, a1, a2, pub_year) ==
    LET author1_id == ordered_pair(a1, a2)[1]
        author2_id == ordered_pair(a1, a2)[2]
        existing == {r \in d.author_collaborations :
                        r.author1_id = author1_id /\ r.author2_id = author2_id}
    IN  IF existing # {}
        THEN [d EXCEPT !.author_collaborations =
                {IF r \in existing
                 THEN [r EXCEPT !.collaboration_count = @ + 1,
                                !.first_collaboration = Min(pub_year, @),
                                !.last_collaboration = Max(pub_year, @)]
                 ELSE r : r \in @}]
        ELSE IF author1_id \in AuthorIds(d) /\ author2_id \in AuthorIds(d)
             THEN [d EXCEPT !.author_collaborations = @ \cup
                     {[author1_id |-> author1_id, author2_id |-> author2_id,
                       collaboration_count |-> 1,
                       first_collaboration |-> pub_year,
                       last_collaboration |-> pub_year]}]
             ELSE d

(***************************************************************************)
(* cleanup_database (dry_run = False).  Its connection never sets PRAGMA   *)
(* foreign_keys, so no foreign key is enforced and no DELETE cascades.     *)
(***************************************************************************)
\* 1. Remove orphaned records
remove_orphaned_records(d) ==
    LET ids == [d EXCEPT !.author_identifiers =
                   {r \in @ : r.author_id \in AuthorIds(d)}]
        pubs == [ids EXCEPT !.author_publications =
                   {r \in @ : /\ r.author_id \in AuthorIds(d)
                              /\ r.publication_id \in PublicationIds(d)}]
        flds == [pubs EXCEPT !.author_fields =
                   {r \in @ : r.author_id \in AuthorIds(d) /\ r.field_id \in d.fields}]
    IN  [flds EXCEPT !.author_collaborations =
            {r \in @ : r.author1_id \in AuthorIds(d) /\ r.author2_id \in AuthorIds(d)}]

\* 2. Remove unused fields
remove_unused_fields(d) ==
    [d EXCEPT !.fields = {f \in @ : \E r \in d.author_fields : r.field_id = f}]

\* 3. Remove authors without data
remove_authors_without_data(d) ==
    [d EXCEPT !.authors =
        {a \in @ : \/ \E r \in d.author_publications : r.author_id = a.id
                   \/ \E r \in d.author_fields :
                          r.author_id = a.id /\ r.expertise_score # NULL}]

\* the SELECT without the approval filter: every candidate not yet completed
approved_merges_unfiltered(d) ==
    {<<c.primary_author_id, c.secondary_author_id>> :
        c \in {x \in d.merge_candidates : x.status # "completed"}}

\* SELECT primary_author_id, secondary_author_id FROM merge_candidates
\* WHERE status = 'approved'
approved_merges(d) ==
    {<<c.primary_author_id, c.secondary_author_id>> :
        c \in {x \in d.merge_candidates : x.status = "approved"}}

\* UPDATE OR IGNORE <table> SET <col> = new WHERE <col> = old, on a table with
\* the primary key columns pk: a row whose new primary key is already taken
\* is left as it is
UpdateOrIgnore(T, col, new, old, pk) ==
    LET moved == {r \in T : /\ r[col] = old
                            /\ \A x \in T : \E k \in pk :
                                   x[k] # [r EXCEPT ![col] = new][k]}
    IN  (T \ moved) \cup {[r EXCEPT ![col] = new] : r \in moved}

\* the body of the loop over the approved merges
merge_one(d, primary_id, secondary_id) ==
    LET ids == UpdateOrIgnore(d.author_identifiers, "author_id",
                   primary_id, secondary_id, {"author_id", "identifier_type"})
        pubs == UpdateOrIgnore(d.author_publications, "author_id",
                   primary_id, secondary_id, {"author_id", "publication_id"})
        flds == UpdateOrIgnore(d.author_fields, "author_id",
                   primary_id, secondary_id, {"author_id", "field_id"})
        col1 == UpdateOrIgnore(d.author_collaborations, "author1_id",
                   primary_id, secondary_id, {"author1_id", "author2_id"})
        col2 == UpdateOrIgnore(col1, "author2_id",
                   primary_id, secondary_id, {"author1_id", "author2_id"})
    IN  [d EXCEPT !.author_identifiers = ids,
                  !.author_publications = pubs,
                  !.author_fields = flds,
                  !.author_collaborations = col2,
                  !.authors = {a \in @ : a.id # secondary_id},
                  !.merge_candidates =
                      {IF c.primary_author_id = primary_id
                          /\ c.secondary_author_id = secondary_id
                       THEN [c EXCEPT !.status = "completed"]
                       ELSE c : c \in @}]

\* steps 1 to 3, which run before the merges in the same transaction
cleanup_before_merges(d) ==
    remove_authors_without_data(remove_unused_fields(remove_orphaned_records(d)))

\* the merges, in the order in which the SELECT returned them
RECURSIVE perform_merges(_, _)
perform_merges(d, merges) ==
    IF merges = <<>> THEN d
    ELSE perform_merges(merge_one(d, Head(merges)[1], Head(merges)[2]), Tail(merges))

\* the orders in which a SELECT without ORDER BY can return a set of rows
RowOrders(S) ==
    {q \in [1..Cardinality(S) -> S] : \A i, j \in 1..Cardinality(S) : i # j => q[i] # q[j]}

\* the database that a complete run commits
cleanup_database(d, merges) ==
    perform_merges(cleanup_before_merges(d), merges)

(***************************************************************************)
(* State.                                                                  *)
(***************************************************************************)
VARIABLES
    db,       \* the committed database: one field per table
    issued,   \* the author uuids drawn so far (uuid4 never repeats)
    txn,      \* the uncommitted working copy of a running cleanup_database
    cl,       \* cleanup_database: position and the merges still to perform
    proc,     \* the concurrent callers of DatabaseManager: position and locals
    session   \* the ResearcherProcessor at the registry: the position and
              \* locals of _find_orcid_match; last is "requested" from a
              \* request until the next asyncio.sleep(1), else "quiet"

vars == <<db, issued, txn, cl, proc, session>>

EmptyDb ==
    [authors |-> {}, author_identifiers |-> {}, publications |-> {},
     author_publications |-> {}, fields |-> {}, author_fields |-> {},
     author_collaborations |-> {}, merge_candidates |-> {}]

Procs == {1, 2}

IdleProc == [pc |-> "idle", op |-> "none", arg |-> <<>>, found |-> {}, ret |-> RAISED]
IdleCleanup == [pc |-> "idle", queue |-> <<>>]
IdleSession ==
    [last |-> "quiet", pc |-> "idle",
     faculty |-> [name |-> <<>>, institution |-> NULL],
     responses |-> <<>>, verified |-> {}, pending |-> <<>>,
     result |-> [status |-> "NO_MATCH", potential_matches |-> <<>>,
                 orcid |-> NULL]]

\* the database after _initialize_tables, no call in progress
Init ==
    /\ db = EmptyDb
    /\ issued = {}
    /\ txn = EmptyDb
    /\ cl = IdleCleanup
    /\ proc = [p \in Procs |-> IdleProc]
    /\ session = IdleSession

\* a write needs SQLite's write lock, which an open cleanup transaction holds
CanWrite == cl.pc = "idle"

(***************************************************************************)
(* Inputs.                                                                 *)
(***************************************************************************)
Orcids == {"X", "Y"}
Emails == {"e1", "e2"}
IdentStatuses == {NULL, "EXACT_MATCH_WITH_INSTITUTION"}

\* payloads of store_researcher with name variants that meet in an index
NameResearchers ==
    [given_name : {"J", "J Q"}, family_name : {"S"}, middle_names : {NULL, "Q"},
     institution : {NULL, "", "RPI"}, orcid : {NULL, "X"}, email : {NULL}]

(***************************************************************************)
(* Calls that run alone (one caller, each call from start to end).         *)
(***************************************************************************)
\* the uuid4 values that a call can draw: any id no row was stored under (a
\* call that found the record draws none; only an inserted uuid stays in use)
NewIds(existing) == IF existing = {} THEN Ids \ issued ELSE {RAISED}

\* store_researcher(researcher)
StoreResearcher(R) ==
    /\ CanWrite
    /\ \E researcher \in R :
        \E new_id \in NewIds(lookup_author(db, researcher)) :
            LET res == store_researcher(db, researcher, new_id)
            IN  /\ db' = res.db
                /\ issued' = issued \cup (AuthorIds(res.db) \ AuthorIds(db))
    /\ UNCHANGED <<session, txn, cl, proc>>

\* store_identifiers(author_id, orcid, email, match_status) for an id that
\* store_researcher returned earlier
StoreIdentifiers(O, E, M) ==
    /\ CanWrite
    /\ \E author_id \in issued, orcid \in O, email \in E, match_status \in M :
        db' = store_identifiers(db, author_id, orcid, email, match_status)
    /\ UNCHANGED <<session, issued, txn, cl, proc>>

\* one caller storing researchers whose names meet in the unique indices
NextStore ==
    StoreResearcher(NameResearchers)

SpecStore == Init /\ [][NextStore]_vars

(***************************************************************************)
(* Concurrent callers (one DatabaseManager connection per process): every  *)
(* SQL statement is atomic, other callers run between a call's query and   *)
(* its writes.                                                             *)
(***************************************************************************)
\* store_researcher, the SELECT at its start
SR_Lookup(p, R) ==
    /\ proc[p].pc = "idle"
    /\ \E researcher \in R :
        proc' = [proc EXCEPT ![p] =
                    [pc |-> "sr_looked_up", op |-> "store_researcher",
                     arg |-> researcher,
                     found |-> lookup_author(db, researcher), ret |-> RAISED]]
    /\ UNCHANGED <<session, db, issued, txn, cl>>

\* store_researcher, from the UPDATE or INSERT to the return or re-raise
SR_Write(p) ==
    /\ proc[p].pc = "sr_looked_up"
    /\ CanWrite
    /\ \E new_id \in NewIds(proc[p].found) :
        LET res == store_researcher_after(db, proc[p].found, proc[p].arg, new_id)
        IN  /\ db' = res.db
            /\ issued' = issued \cup (AuthorIds(res.db) \ AuthorIds(db))
            /\ proc' = [proc EXCEPT ![p].pc = "returned", ![p].ret = res.ret]
    /\ UNCHANGED <<session, txn, cl>>

\* store_identifiers, the conflict query at its start
SI_Query(p, O, E, M) ==
    /\ proc[p].pc = "idle"
    /\ \E author_id \in issued, orcid \in O, email \in E, match_status \in M :
        proc' = [proc EXCEPT ![p] =
                    [pc |-> "si_queried", op |-> "store_identifiers",
                     arg |-> [author_id |-> author_id, orcid |-> orcid,
                              email |-> email, match_status |-> match_status],
                     found |-> existing_orcid(db, orcid, author_id),
                     ret |-> RAISED]]
    /\ UNCHANGED <<session, db, issued, txn, cl>>

\* store_identifiers, its writes
SI_Write(p) ==
    /\ proc[p].pc = "si_queried"
    /\ CanWrite
    /\ db' = store_identifiers_after(db, proc[p].found, proc[p].arg.author_id,
                 proc[p].arg.orcid, proc[p].arg.email, proc[p].arg.match_status)
    /\ proc' = [proc EXCEPT ![p].pc = "returned"]
    /\ UNCHANGED <<session, issued, txn, cl>>

\* the caller goes on to its next call
Return(p) ==
    /\ proc[p].pc = "returned"
    /\ proc' = [proc EXCEPT ![p] = IdleProc]
    /\ UNCHANGED <<session, db, issued, txn, cl>>

\* payloads of two callers that race for the same and for neighbouring keys
RaceResearchers ==
    [given_name : {"J"}, family_name : {"S"}, middle_names : {NULL},
     institution : {NULL, "", "RPI"}, orcid : {NULL, "X"}, email : {NULL}]

NextRace ==
    \E p \in Procs :
        \/ SR_Lookup(p, RaceResearchers)
        \/ SR_Write(p)
        \/ SI_Query(p, Orcids, {NULL}, {NULL})
        \/ SI_Write(p)
        \/ Return(p)

SpecRace == Init /\ [][NextRace]_vars

(***************************************************************************)
(* Publication ingestion, field scores and the collaboration network, as   *)
(* process_researcher and the field classifier call them.                  *)
(***************************************************************************)
PubIds == {"p1"}
FieldIds == {"f1"}
Years == {2020}

StorePublication ==
    /\ CanWrite
    /\ \E pub_id \in PubIds \ PublicationIds(db) :
        db' = store_publication(db, [title |-> "T1", doi |-> NULL, citations |-> 0],
                                pub_id).db
    /\ UNCHANGED <<session, issued, txn, cl, proc>>

StoreAuthorPublication ==
    /\ CanWrite
    /\ \E author_id \in issued, pub_id \in PublicationIds(db) :
        db' = store_author_publication(db, author_id, pub_id).db
    /\ UNCHANGED <<session, issued, txn, cl, proc>>

InitializeFields ==
    /\ CanWrite
    /\ \E loaded \in (SUBSET FieldIds) \ {{}} : db' = initialize_fields_in_db(db, loaded)
    /\ UNCHANGED <<session, issued, txn, cl, proc>>

StoreFieldScores ==
    /\ CanWrite
    /\ \E author_id \in issued, scores \in SUBSET FieldIds :
        db' = store_field_scores(db, author_id, scores).db
    /\ UNCHANGED <<session, issued, txn, cl, proc>>

\* process_researcher calls it for a coauthor other than the author
UpdateCollaborationNetwork ==
    /\ CanWrite
    /\ \E a1 \in issued, a2 \in issued, pub_year \in Years :
        /\ a1 # a2
        /\ \A r \in db.author_collaborations : r.collaboration_count < MaxCollabCount
        /\ db' = update_collaboration_network(db, a1, a2, pub_year)
    /\ UNCHANGED <<session, issued, txn, cl, proc>>

(***************************************************************************)
(* Approval of a merge candidate and the run of cleanup_database.          *)
(***************************************************************************)
\* the explicit approval step: a pending candidate becomes approved
approve(d, c) ==
    [d EXCEPT !.merge_candidates = (@ \ {c}) \cup {[c EXCEPT !.status = "approved"]}]

Approve ==
    /\ CanWrite
    /\ \E c \in db.merge_candidates :
        /\ c.status = "pending"
        /\ db' = approve(db, c)
    /\ UNCHANGED <<session, issued, txn, cl, proc>>

\* payloads of store_researcher without identifiers: distinct people
PlainResearchers ==
    [given_name : {"G.T.", "Gaetano"}, family_name : {"Montelione"},
     middle_names : {NULL}, institution : {"RPI"}, orcid : {NULL}, email : {NULL}]

\* one caller storing researchers and then their identifiers, and the
\* approval of the merge candidates that come up
NextIdent ==
    \/ StoreResearcher(PlainResearchers)
    \/ StoreIdentifiers(Orcids \cup {NULL}, Emails \cup {NULL}, IdentStatuses)
    \/ Approve

SpecIdent == Init /\ [][NextIdent]_vars

\* a connection in autocommit mode: every statement is visible at once
visible_after_autocommit(step, d, t) == t

\* what other connections see after a step of the run: the run commits once,
\* after the last merge
visible_after(step, d, t) == IF step = "commit" THEN t ELSE d

\* steps 1 to 3 and the SELECT of the approved merges
CleanupBegin ==
    /\ cl.pc = "idle"
    /\ \E merges \in RowOrders(approved_merges(db)) :
        /\ txn' = cleanup_before_merges(db)
        /\ cl' = [pc |-> "merging", queue |-> merges]
        /\ db' = visible_after("begin", db, txn')
    /\ UNCHANGED <<session, issued, proc>>

\* one iteration of the loop over the approved merges
CleanupMerge ==
    /\ cl.pc = "merging"
    /\ cl.queue # <<>>
    /\ txn' = merge_one(txn, Head(cl.queue)[1], Head(cl.queue)[2])
    /\ cl' = [cl EXCEPT !.queue = Tail(@)]
    /\ db' = visible_after("merge", db, txn')
    /\ UNCHANGED <<session, issued, proc>>

\* conn.commit()
CleanupCommit ==
    /\ cl.pc = "merging"
    /\ cl.queue = <<>>
    /\ db' = visible_after("commit", db, txn)
    /\ txn' = EmptyDb
    /\ cl' = IdleCleanup
    /\ UNCHANGED <<session, issued, proc>>

\* the run dies before its commit: SQLite rolls the open transaction back
CleanupCrash ==
    /\ cl.pc = "merging"
    /\ txn' = EmptyDb
    /\ cl' = IdleCleanup
    /\ UNCHANGED <<session, db, issued, proc>>

\* the records of the ORCID-conflict scenarios: an abbreviated and a full name
MergeResearchers ==
    [given_name : {"G.T.", "Gaetano"}, family_name : {"Montelione"},
     middle_names : {NULL}, institution : {"RPI"}, orcid : {NULL, "X"}, email : {NULL}]

Next ==
    \/ StoreResearcher(MergeResearchers)
    \/ StoreIdentifiers({"X"}, {NULL}, {NULL})
    \/ StorePublication
    \/ StoreAuthorPublication
    \/ InitializeFields
    \/ StoreFieldScores
    \/ UpdateCollaborationNetwork
    \/ Approve
    \/ CleanupBegin
    \/ CleanupMerge
    \/ CleanupCommit
    \/ CleanupCrash

\* ingestion, approval and cleanup by one operator at a time
Spec == Init /\ [][Next]_vars

(***************************************************************************)
(* Properties.                                                             *)
(***************************************************************************)
\* the merge candidate rows of a pair
candidates_of(d, primary, secondary) ==
    {c \in d.merge_candidates :
        c.primary_author_id = primary /\ c.secondary_author_id = secondary}

\* the row that the conflict branch of store_identifiers inserts
conflict_candidate(primary, secondary, orcid) ==
    [primary_author_id |-> primary, secondary_author_id |-> secondary,
     reason |-> orcid, confidence |-> "0.9", status |-> "pending"]

\* the author holds the ORCID value
holds_orcid(d, author_id, orcid) ==
    \E r \in orcid_rows(d, author_id) : r.identifier_value = orcid

\* the author's email is the value
has_email(d, author_id, email) ==
    \E r \in d.author_identifiers :
        /\ r.author_id = author_id
        /\ r.identifier_type = "email"
        /\ r.identifier_value = email

\* C1: in every state reachable by store_identifiers calls, each ORCID value
\* in author_identifiers is held by at most one author_id.
C1_OrcidHeldByOneAuthor ==
    \A r1 \in db.author_identifiers : \A r2 \in db.author_identifiers :
        ( /\ r1.identifier_type = "orcid"
          /\ r2.identifier_type = "orcid"
          /\ r1.identifier_value = r2.identifier_value )
            => r1.author_id = r2.author_id

\* two callers passed the conflict query for the same ORCID and different
\* authors before either wrote; both have returned and the ORCID is held
C1_Witness ==
    \E p \in Procs : \E q \in Procs :
        /\ p # q
        /\ proc[p].op = "store_identifiers" /\ proc[q].op = "store_identifiers"
        /\ proc[p].pc = "returned" /\ proc[q].pc = "returned"
        /\ proc[p].found = {} /\ proc[q].found = {}
        /\ proc[p].arg.orcid = proc[q].arg.orcid
        /\ proc[p].arg.author_id # proc[q].arg.author_id
        /\ holds_orcid(db, proc[p].arg.author_id, proc[p].arg.orcid)

\* C2 as stated: when store_identifiers(id, orcid, email, status) is called
\* and the ORCID is attached to a different author P, no ORCID row of id is
\* created or changed, the pair (P, id) has exactly one merge candidate row,
\* which has reason 'ORCID conflict: <orcid>', confidence 0.9 and status
\* pending, also when the call is repeated, and a supplied email is stored
\* as id's email.
C2_ConflictRecordsCandidate ==
    \A id \in AuthorIds(db) : \A orcid \in Orcids :
    \A email \in Emails \cup {NULL} : \A match_status \in IdentStatuses :
    \A P \in existing_orcid(db, orcid, id) \cap AuthorIds(db) :
        LET once == store_identifiers(db, id, orcid, email, match_status)
            twice == store_identifiers(once, id, orcid, email, match_status)
        IN  \A after \in {once, twice} :
                /\ orcid_rows(after, id) = orcid_rows(db, id)
                /\ candidates_of(after, P, id) = {conflict_candidate(P, id, orcid)}
                /\ email # NULL => has_email(after, id, email)

\* C2 (amended): under the same call, no ORCID row of id is created or
\* changed, the pair (P, id) has exactly one merge candidate row afterwards,
\* also when the call is repeated - the row that existed before the call,
\* unchanged, or else a new row with reason 'ORCID conflict: <orcid>',
\* confidence 0.9 and status pending - and a supplied email is stored as
\* id's email.
C2_ConflictKeepsOneCandidate ==
    \A id \in AuthorIds(db) : \A orcid \in Orcids :
    \A email \in Emails \cup {NULL} : \A match_status \in IdentStatuses :
    \A P \in existing_orcid(db, orcid, id) \cap AuthorIds(db) :
        LET once == store_identifiers(db, id, orcid, email, match_status)
            twice == store_identifiers(once, id, orcid, email, match_status)
        IN  \A after \in {once, twice} :
                /\ orcid_rows(after, id) = orcid_rows(db, id)
                /\ Cardinality(candidates_of(after, P, id)) = 1
                /\ candidates_of(after, P, id) =
                       IF candidates_of(db, P, id) # {}
                       THEN candidates_of(db, P, id)
                       ELSE {conflict_candidate(P, id, orcid)}
                /\ email # NULL => has_email(after, id, email)

\* a conflict call has acted: the pair has its pending candidate naming the
\* ORCID that the primary holds, the secondary got its email and no ORCID
C2_Witness ==
    \E c \in db.merge_candidates : \E email \in Emails :
        /\ c.status = "pending"
        /\ holds_orcid(db, c.primary_author_id, c.reason)
        /\ has_email(db, c.secondary_author_id, email)
        /\ orcid_rows(db, c.secondary_author_id) = {}

\* what a store_identifiers call leaves alone: authors, authorships, field
\* expertise, collaborations, the identifiers of other authors and the
\* candidates that exist; a candidate it creates is pending
conflict_detection_only(d, author_id, after) ==
    /\ after.authors = d.authors
    /\ after.author_publications = d.author_publications
    /\ after.author_fields = d.author_fields
    /\ after.author_collaborations = d.author_collaborations
    /\ \A r \in d.author_identifiers :
           r.author_id # author_id => r \in after.author_identifiers
    /\ \A r \in after.author_identifiers \ d.author_identifiers :
           r.author_id = author_id
    /\ d.merge_candidates \subseteq after.merge_candidates
    /\ \A c \in after.merge_candidates \ d.merge_candidates : c.status = "pending"

\* a step completes a candidate only if the candidate was approved
completed_only_from_approved ==
    \A c2 \in db'.merge_candidates :
        c2.status = "completed" =>
            \E c \in candidates_of(db, c2.primary_author_id, c2.secondary_author_id) :
                c.status \in {"approved", "completed"}

publications_of(d, author_id) ==
    {r.publication_id : r \in {x \in d.author_publications : x.author_id = author_id}}

\* the authors linked to an author by a collaboration row
collaborators_of(d, author_id) ==
    {r.author2_id : r \in {x \in d.author_collaborations : x.author1_id = author_id}}
        \cup
    {r.author1_id : r \in {x \in d.author_collaborations : x.author2_id = author_id}}

\* C4: after store_identifiers is called for an author with an ORCID that a
\* different author holds, the two records are consolidated: exactly one of
\* them remains in authors, and it has the publications and collaborations
\* that were attached to either record.
C4_ConflictConsolidatesRecords ==
    \A id \in AuthorIds(db) : \A orcid \in Orcids :
    \A P \in existing_orcid(db, orcid, id) \cap AuthorIds(db) :
        LET after == store_identifiers(db, id, orcid, NULL, NULL)
        IN  \E kept \in {P, id} :
                /\ AuthorIds(after) \cap {P, id} = {kept}
                /\ publications_of(after, kept) =
                       publications_of(db, P) \cup publications_of(db, id)
                /\ (collaborators_of(db, P) \cup collaborators_of(db, id)) \ {P, id}
                       \subseteq collaborators_of(after, kept)

\* the rows of the dependent tables that reference an author id
rows_referencing(d, author_id) ==
    {r \in d.author_identifiers : r.author_id = author_id}
        \cup {r \in d.author_publications : r.author_id = author_id}
        \cup {r \in d.author_fields : r.author_id = author_id}
        \cup {r \in d.author_collaborations :
                 r.author1_id = author_id \/ r.author2_id = author_id}

\* C5: in every reachable state in which a merge candidate (A, B) has status
\* completed, B is absent from authors and no row of author_identifiers,
\* author_publications, author_fields or author_collaborations references B.
C5_CompletedSecondaryIsGone ==
    \A c \in db.merge_candidates :
        c.status = "completed" =>
            /\ c.secondary_author_id \notin AuthorIds(db)
            /\ rows_referencing(db, c.secondary_author_id) = {}

\* C6: for an approved candidate (A, B) whose records both exist before
\* cleanup_database runs, after the run A is in authors, B is not, and the
\* publications linked to A are those that were linked to A or to B.
C6_ApprovedMergeKeepsPrimary ==
    cl.pc = "idle" =>
        \A c \in db.merge_candidates :
            ( /\ c.status = "approved"
              /\ c.primary_author_id \in AuthorIds(db)
              /\ c.secondary_author_id \in AuthorIds(db) ) =>
                \A merges \in RowOrders(approved_merges(db)) :
                    LET after == cleanup_database(db, merges)
                    IN  /\ c.primary_author_id \in AuthorIds(after)
                        /\ c.secondary_author_id \notin AuthorIds(after)
                        /\ publications_of(after, c.primary_author_id) =
                               publications_of(db, c.primary_author_id)
                                   \cup publications_of(db, c.secondary_author_id)

\* a step of a run of cleanup_database leaves the committed database as it
\* is, or replaces it by the result of the complete run, in which every
\* candidate that was approved is completed and its secondary deleted
cleanup_all_or_nothing ==
    (cl.pc = "merging" \/ cl'.pc = "merging") =>
        \/ db' = db
        \/ \E merges \in RowOrders(approved_merges(db)) :
               /\ db' = cleanup_database(db, merges)
               /\ \A m \in approved_merges(db) :
                      /\ \A c \in candidates_of(db', m[1], m[2]) : c.status = "completed"
                      /\ m[2] \notin AuthorIds(db')

\* C7: merge execution is atomic: wherever a run of cleanup_database stops,
\* the committed database shows for each approved candidate all of the
\* merge (rows re-pointed, secondary deleted, candidate completed) or none.
C7_MergeExecutionAtomic == [][cleanup_all_or_nothing]_vars

\* a run that can crash now has performed a merge in its transaction which
\* the committed database does not show
C7_Witness ==
    /\ cl.pc = "merging"
    /\ \E c \in txn.merge_candidates :
           /\ c.status = "completed"
           /\ [c EXCEPT !.status = "approved"] \in db.merge_candidates
           /\ c.secondary_author_id \in AuthorIds(db)
           /\ c.secondary_author_id \notin AuthorIds(txn)

\* the authors rows of a researcher's (given_name, family_name, institution)
rows_of_key(d, researcher) ==
    {r \in d.authors : /\ r.given_name = researcher.given_name
                       /\ r.family_name = researcher.family_name
                       /\ r.institution = researcher.institution}

\* C8: calling store_researcher twice with identical (given_name,
\* family_name, institution) returns the same id both times and leaves
\* exactly one authors row for that key.
C8_StoreResearcherIdempotent ==
    \A researcher \in NameResearchers :
    \A id1 \in NewIds(lookup_author(db, researcher)) :
        LET first == store_researcher(db, researcher, id1)
        IN  \A id2 \in NewIds(lookup_author(first.db, researcher)) :
                LET second == store_researcher(first.db, researcher, id2)
                IN  /\ first.ret # RAISED
                    /\ second.ret = first.ret
                    /\ Cardinality(rows_of_key(second.db, researcher)) = 1

\* C9: if two callers of store_researcher for the same (given_name,
\* family_name, institution) both found no row before either inserts, then,
\* whoever writes first, exactly one row is created, both return its id and
\* neither raises.
C9_RaceReturnsOneRow ==
    \A p \in Procs : \A q \in Procs :
        ( /\ p # q
          /\ proc[p].pc = "sr_looked_up" /\ proc[q].pc = "sr_looked_up"
          /\ proc[p].found = {} /\ proc[q].found = {}
          /\ proc[p].arg.given_name = proc[q].arg.given_name
          /\ proc[p].arg.family_name = proc[q].arg.family_name
          /\ proc[p].arg.institution = proc[q].arg.institution ) =>
            \A id1 \in Ids \ issued : \A id2 \in Ids \ (issued \cup {id1}) :
                LET first == store_researcher_after(db, {}, proc[p].arg, id1)
                    second == store_researcher_after(first.db, {}, proc[q].arg, id2)
                IN  /\ first.ret # RAISED
                    /\ second.ret = first.ret
                    /\ Cardinality(AuthorIds(second.db) \ AuthorIds(db)) = 1

\* C10: store_researcher never surfaces a uniqueness violation: a call whose
\* INSERT violates a unique index of authors returns the id of the existing
\* row.
C10_UniquenessViolationRecovered ==
    \A researcher \in NameResearchers :
    \A new_id \in NewIds(lookup_author(db, researcher)) :
        LET res == store_researcher(db, researcher, new_id)
        IN  /\ res.ret # RAISED
            /\ res.ret \in AuthorIds(res.db)

\* C11: store_researcher finds an existing record exactly when given_name,
\* family_name and institution are equal (NULL matching only NULL) and
\* returns its id without adding a row; when there is none it inserts a row
\* and returns the new id; no two records share (given_name, family_name,
\* institution).
C11_LookupByNameAndInstitution ==
    /\ \A r1 \in db.authors : \A r2 \in db.authors :
           r1 \in rows_of_key(db, r2) => r1 = r2
    /\ \A researcher \in NameResearchers :
       \A new_id \in NewIds(lookup_author(db, researcher)) :
           LET res == store_researcher(db, researcher, new_id)
           IN  IF rows_of_key(db, researcher) # {}
               THEN /\ res.ret \in {r.id : r \in rows_of_key(db, researcher)}
                    /\ AuthorIds(res.db) = AuthorIds(db)
               ELSE /\ res.ret = new_id
                    /\ AuthorIds(res.db) = AuthorIds(db) \cup {new_id}
                    /\ Cardinality(rows_of_key(res.db, researcher)) = 1

\* the columns of authors that a payload of store_researcher can supply
AuthorColumns == {"id", "given_name", "family_name", "middle_names", "institution"}

\* C12: when store_researcher finds an existing record, it returns that
\* record's id, every other record is as it was, and each column of the
\* record keeps its value unless the payload supplied a non-null value for
\* it, which it then holds: no column that held a value becomes NULL.
C12_UpdateOnlySuppliedFields ==
    \A researcher \in NameResearchers :
    \A r \in db.authors :
        r.id \in lookup_author(db, researcher) =>
            LET res == store_researcher(db, researcher, RAISED)
            IN  /\ res.ret = r.id
                /\ \A o \in db.authors : o.id # r.id => o \in res.db.authors
                /\ \E r2 \in res.db.authors :
                       /\ r2.id = r.id
                       /\ \A col \in AuthorColumns \ {"id"} :
                              /\ r2[col] # r[col] =>
                                     (researcher[col] # NULL /\ r2[col] = researcher[col])
                              /\ r[col] # NULL => r2[col] # NULL
                       /\ r2.h_index = r.h_index
                       /\ r2.total_citations = r.total_citations
                /\ Cardinality(res.db.authors) = Cardinality(db.authors)

\* a record holding middle names is found by a payload that supplies none,
\* and the call writes (it links the payload's ORCID)
C12_Witness ==
    \E researcher \in NameResearchers : \E r \in db.authors :
        /\ r.id \in lookup_author(db, researcher)
        /\ r.middle_names = "Q"
        /\ researcher.middle_names = NULL
        /\ store_researcher(db, researcher, RAISED).db # db

(***************************************************************************)
(* Names and ORCID payloads as the text they are: a name is a sequence of  *)
(* pieces, each a blank " " or a run of non-blank characters; an ORCID     *)
(* payload is the sequence of the segments that '/' separates.             *)
(***************************************************************************)
\* what _get_or_create_coauthor returns when it gives up
None == -1

\* str.split(): the runs of non-blank characters
RECURSIVE split(_)
split(text) ==
    IF text = <<>> THEN <<>>
    ELSE LET rest == split(Tail(text))
         IN  IF Head(text) = " " THEN rest
             ELSE IF Len(text) > 1 /\ text[2] # " "
                  THEN <<Head(text) \o Head(rest)>> \o Tail(rest)
                  ELSE <<Head(text)>> \o rest

\* ' '.join(parts)
RECURSIVE join(_)
join(parts) ==
    IF Len(parts) = 1 THEN parts[1]
    ELSE parts[1] \o " " \o join(Tail(parts))

\* parts[-1].lower().replace('.', '') for the tokens of the model
lower_without_dots(token) ==
    CASE token \in {"Jr", "Jr.", "jr", "JR"} -> "jr"
      [] token \in {"Sr", "Sr."} -> "sr"
      [] token \in {"II", "ii"} -> "ii"
      [] token \in {"III", "iii"} -> "iii"
      [] token \in {"IV", "iv", "I.V."} -> "iv"
      [] token \in {"V", "v", "V."} -> "v"
      [] OTHER -> token

suffixes == {"jr", "sr", "ii", "iii", "iv", "v"}

\* the sequence as it is, the last element kept
all_parts(parts) == parts

\* the sequence without its last element (parts[:-1])
all_but_last(parts) == SubSeq(parts, 1, Len(parts) - 1)

\* DatabaseManager.parse_academic_name; raised = TRUE is the IndexError of
\* parts[-1] on a name without tokens
parse_academic_name(full_name) ==
    LET parts == split(full_name)
        has_suffix == /\ Len(parts) > 1
                      /\ lower_without_dots(parts[Len(parts)]) \in suffixes
        rest == IF has_suffix THEN all_but_last(parts) ELSE parts
    IN  IF Len(parts) = 0
        THEN [raised |-> TRUE, given_name |-> NULL, family_name |-> NULL,
              middle_names |-> NULL, name_suffix |-> NULL]
        ELSE IF Len(parts) = 1
        THEN [raised |-> FALSE, given_name |-> parts[1], family_name |-> parts[1],
              middle_names |-> NULL, name_suffix |-> NULL]
        ELSE [raised |-> FALSE,
              given_name |-> rest[1],
              family_name |-> rest[Len(rest)],
              middle_names |-> IF Len(rest) > 2
                               THEN join(SubSeq(rest, 2, Len(rest) - 1)) ELSE NULL,
              name_suffix |-> IF has_suffix THEN parts[Len(parts)] ELSE NULL]

\* '/'.join(segments): the text of an ORCID payload
RECURSIVE slash_join(_)
slash_join(segments) ==
    IF Len(segments) = 1 THEN segments[1]
    ELSE segments[1] \o "/" \o slash_join(Tail(segments))

\* 'orcid.org' in orcid
is_orcid_url(segments) == \E i \in 1..Len(segments) : segments[i] = "orcid.org"

\* the ORCID that _get_or_create_coauthor works with: orcid.split('/')[-1]
\* of a URL, else the payload as it is
coauthor_orcid(payload) ==
    IF payload = NULL THEN NULL
    ELSE IF Truthy(slash_join(payload)) /\ is_orcid_url(payload)
         THEN payload[Len(payload)]
         ELSE slash_join(payload)

\* SELECT author_id FROM author_identifiers WHERE identifier_type = 'orcid'
\* AND identifier_value = ?
orcid_holders(d, orcid) ==
    {r.author_id : r \in {x \in d.author_identifiers :
                             x.identifier_type = "orcid" /\ x.identifier_value = orcid}}

\* ResearcherProcessor._get_or_create_coauthor; new_id is the uuid4 that
\* store_researcher draws; parsed tells whether the name was parsed
get_or_create_coauthor(d, coauthor_data, new_id) ==
    LET orcid == coauthor_orcid(coauthor_data.orcid)
        by_orcid == orcid_holders(d, orcid)
        first_priority == /\ coauthor_data.orcid # NULL
                          /\ Truthy(slash_join(coauthor_data.orcid))
                          /\ is_orcid_url(coauthor_data.orcid)
        name_parts == parse_academic_name(coauthor_data.name)
        by_name == lookup_author(d, [given_name |-> name_parts.given_name,
                                     family_name |-> name_parts.family_name,
                                     institution |-> coauthor_data.institution])
    IN  IF first_priority /\ by_orcid # {}
        THEN [db |-> d, ret |-> CHOOSE i \in by_orcid : TRUE, parsed |-> FALSE]
        ELSE IF coauthor_data.name = NULL \/ coauthor_data.name = <<>>
        THEN [db |-> d, ret |-> None, parsed |-> FALSE]
        ELSE IF Truthy(orcid) /\ by_orcid # {}
        THEN [db |-> d, ret |-> CHOOSE i \in by_orcid : TRUE, parsed |-> FALSE]
        ELSE IF name_parts.raised
        THEN [db |-> d, ret |-> None, parsed |-> TRUE]
        ELSE IF by_name # {}
        THEN LET author_id == CHOOSE i \in by_name : TRUE
             IN  [db |-> IF Truthy(orcid)
                         THEN store_identifiers(d, author_id, orcid, NULL, NULL)
                         ELSE d,
                  ret |-> author_id, parsed |-> TRUE]
        ELSE LET res == store_researcher(d,
                            [given_name |-> name_parts.given_name,
                             family_name |-> name_parts.family_name,
                             middle_names |-> name_parts.middle_names,
                             institution |-> coauthor_data.institution,
                             orcid |-> IF Truthy(orcid) THEN orcid ELSE NULL,
                             email |-> NULL],
                            new_id)
             IN  [db |-> res.db,
                  ret |-> IF res.ret = RAISED THEN None ELSE res.ret,
                  parsed |-> TRUE]

(***************************************************************************)
(* Coauthor resolution next to the storing of faculty records.             *)
(***************************************************************************)
\* faculty payloads of store_researcher, with and without an ORCID
FacultyResearchers ==
    [given_name : {"J"}, family_name : {"S", "T"}, middle_names : {NULL},
     institution : {"RPI"}, orcid : {NULL, "X"}, email : {NULL}]

\* coauthor payloads: the ORCID bare or as a URL, the name absent or present
CoauthorPayloads ==
    [orcid : {NULL, <<"X">>, <<"https:", "", "orcid.org", "X">>,
              <<"https:", "", "orcid.org", "Y">>},
     name : {NULL, <<"J", " ", "S">>, <<"K", " ", "Q", " ", "S">>},
     institution : {NULL, "RPI"}]

\* _get_or_create_coauthor(coauthor_data)
GetOrCreateCoauthor ==
    /\ CanWrite
    /\ \E coauthor_data \in CoauthorPayloads :
       \E new_id \in (Ids \ issued) \cup {RAISED} :
           LET res == get_or_create_coauthor(db, coauthor_data, new_id)
           IN  /\ RAISED \notin AuthorIds(res.db)
               /\ db' = res.db
               /\ issued' = issued \cup (AuthorIds(res.db) \ AuthorIds(db))
    /\ UNCHANGED <<session, txn, cl, proc>>

NextCoauthor ==
    \/ StoreResearcher(FacultyResearchers)
    \/ GetOrCreateCoauthor

SpecCoauthor == Init /\ [][NextCoauthor]_vars

\* the ORCID iD that a payload denotes: its last segment in either form
orcid_id_of(payload) == payload[Len(payload)]

\* C13: whenever a record holds the coauthor's ORCID, _get_or_create_coauthor
\* returns that record's id, whatever the name and institution in the
\* payload, without parsing the name and without creating a record.
C13_KnownOrcidReturnsHolder ==
    \A coauthor_data \in CoauthorPayloads :
    \A new_id \in (Ids \ issued) \cup {RAISED} :
        ( /\ coauthor_data.orcid # NULL
          /\ orcid_holders(db, orcid_id_of(coauthor_data.orcid)) # {} ) =>
            LET res == get_or_create_coauthor(db, coauthor_data, new_id)
            IN  /\ res.ret \in orcid_holders(db, orcid_id_of(coauthor_data.orcid))
                /\ ~res.parsed
                /\ res.db = db

(***************************************************************************)
(* Calls that never supply an ORCID for an author while a different author *)
(* holds it (records of one name at two institutions, each with its ORCID).*)
(***************************************************************************)
JianLiuResearchers ==
    [given_name : {"Jian"}, family_name : {"Liu"}, middle_names : {NULL},
     institution : {"USTC", "Harvard"}, orcid : {NULL, "X", "Y"}, email : {NULL}]

\* an author other than author_id holds the ORCID
held_by_other(d, orcid, author_id) ==
    \E r \in d.author_identifiers :
        /\ r.identifier_type = "orcid"
        /\ r.identifier_value = orcid
        /\ r.author_id # author_id

\* store_researcher with a payload whose ORCID no other record holds
StoreResearcherOwnOrcid ==
    /\ \E researcher \in JianLiuResearchers :
       \E new_id \in NewIds(lookup_author(db, researcher)) :
           /\ ~held_by_other(db, researcher.orcid,
                  IF lookup_author(db, researcher) = {} THEN new_id
                  ELSE CHOOSE i \in lookup_author(db, researcher) : TRUE)
           /\ LET res == store_researcher(db, researcher, new_id)
              IN  /\ db' = res.db
                  /\ issued' = issued \cup (AuthorIds(res.db) \ AuthorIds(db))
    /\ UNCHANGED <<session, txn, cl, proc>>

\* store_identifiers with an ORCID that no other record holds
StoreIdentifiersOwnOrcid ==
    /\ \E author_id \in issued, orcid \in Orcids \cup {NULL}, email \in {NULL, "e1"} :
        /\ ~held_by_other(db, orcid, author_id)
        /\ db' = store_identifiers(db, author_id, orcid, email, NULL)
    /\ UNCHANGED <<session, issued, txn, cl, proc>>

NextOwnOrcid ==
    \/ StoreResearcherOwnOrcid
    \/ StoreIdentifiersOwnOrcid

SpecOwnOrcid == Init /\ [][NextOwnOrcid]_vars

\* C14: as long as no ORCID is supplied for an author while a different
\* author holds it, merge_candidates stays empty, every record created
\* persists under its id, and a call leaves every other record's ORCID as
\* it is while the author it is made for holds the ORCID supplied.
C14_NoCollisionNoCandidate ==
    /\ db.merge_candidates = {}
    /\ AuthorIds(db) = issued
    /\ \A author_id \in issued : \A orcid \in Orcids :
           ~held_by_other(db, orcid, author_id) =>
               LET after == store_identifiers(db, author_id, orcid, NULL, NULL)
               IN  /\ after.merge_candidates = {}
                   /\ after.authors = db.authors
                   /\ holds_orcid(after, author_id, orcid)
                   /\ \A o \in issued \ {author_id} :
                          orcid_rows(after, o) = orcid_rows(db, o)

\* two records of one name at two institutions, each holding its own ORCID
C14_Witness ==
    \E r1 \in db.authors : \E r2 \in db.authors :
        /\ r1.id # r2.id
        /\ r1.given_name = r2.given_name /\ r1.family_name = r2.family_name
        /\ holds_orcid(db, r1.id, "X")
        /\ holds_orcid(db, r2.id, "Y")
        /\ db.merge_candidates = {}

\* the (verification_status, confidence) that each match status stands for
expected_verification(match_status) ==
    CASE match_status = "EXACT_MATCH_WITH_INSTITUTION" -> <<"verified", "1.0">>
      [] match_status = "EXACT_MATCH_DISTINCTIVE" -> <<"probable", "0.9">>
      [] match_status = "EXACT_MATCH_COMMON_NAME" -> <<"probable", "0.7">>
      [] match_status = "MULTIPLE_MATCHES" -> <<"ambiguous", "0.3">>
      [] match_status = "NO_MATCH" -> <<"unverified", "0.0">>
      [] match_status = NULL -> <<"unverified", "0.0">>

\* C15: when store_identifiers attaches an ORCID (no other author holds it),
\* the author has exactly one ORCID row afterwards, with the value supplied
\* and the (verification_status, confidence) of the match status - method
\* direct_input when none is given - whether or not the author had an ORCID
\* row before.
C15_VerificationByMatchStatus ==
    \A author_id \in AuthorIds(db) : \A orcid \in Orcids :
    \A match_status \in (MatchStatus \ {"ERROR"}) \cup {NULL} :
        existing_orcid(db, orcid, author_id) = {} =>
            LET after == store_identifiers(db, author_id, orcid, NULL, match_status)
            IN  /\ Cardinality(orcid_rows(after, author_id)) = 1
                /\ \A r \in orcid_rows(after, author_id) :
                       /\ r.identifier_value = orcid
                       /\ r.verification_status = expected_verification(match_status)[1]
                       /\ r.confidence_score = expected_verification(match_status)[2]
                       /\ match_status = NULL => r.verification_method = "direct_input"

\* an author whose ORCID row was written with a match status can be given
\* another ORCID without one: the upsert has a row to replace
C15_Witness ==
    \E r \in db.author_identifiers :
        /\ r.identifier_type = "orcid"
        /\ r.verification_status = "verified"
        /\ r.confidence_score = "1.0"
        /\ \E orcid \in Orcids \ {r.identifier_value} :
               existing_orcid(db, orcid, r.author_id) = {}

(***************************************************************************)
(* store_identifiers write by write: each "with self.conn:" block commits  *)
(* on its own, and the caller's process can end between two of them.       *)
(***************************************************************************)
\* the first committed write of a call: the merge candidate or the ORCID
\* row.  ok = FALSE: the ORCID UPDATE raised and the call ends
store_identifiers_first_write(d, owners, author_id, orcid, match_status) ==
    IF Truthy(orcid)
    THEN IF owners # {}
         THEN [ok |-> TRUE,
               db |-> record_merge_candidate(d, CHOOSE p \in owners : TRUE,
                                             author_id, orcid)]
         ELSE store_orcid(d, author_id, orcid, match_status)
    ELSE [ok |-> TRUE, db |-> d]

\* store_identifiers, from the conflict query's result to the commit of the
\* merge candidate or of the ORCID row
SI_WriteFirst(p) ==
    /\ proc[p].pc = "si_queried"
    /\ CanWrite
    /\ LET first == store_identifiers_first_write(db, proc[p].found,
                        proc[p].arg.author_id, proc[p].arg.orcid,
                        proc[p].arg.match_status)
       IN  /\ db' = first.db
           /\ proc' = [proc EXCEPT ![p].pc = IF first.ok THEN "si_first_written"
                                             ELSE "returned"]
    /\ UNCHANGED <<session, issued, txn, cl>>

\* store_identifiers, the commit of the email row
SI_WriteEmail(p) ==
    /\ proc[p].pc = "si_first_written"
    /\ CanWrite
    /\ db' = store_email(db, proc[p].arg.author_id, proc[p].arg.email)
    /\ proc' = [proc EXCEPT ![p].pc = "returned"]
    /\ UNCHANGED <<session, issued, txn, cl>>

\* the caller's process ends in the middle of the call
SI_Interrupt(p) ==
    /\ proc[p].pc \in {"si_queried", "si_first_written"}
    /\ proc' = [proc EXCEPT ![p] = IdleProc]
    /\ UNCHANGED <<session, db, issued, txn, cl>>

NextIdentSteps ==
    \/ StoreResearcher(PlainResearchers)
    \/ \E p \in Procs :
        \/ SI_Query(p, {"X"}, {NULL, "e1"}, {NULL})
        \/ SI_WriteFirst(p)
        \/ SI_WriteEmail(p)
        \/ SI_Interrupt(p)
        \/ Return(p)

SpecIdentSteps == Init /\ [][NextIdentSteps]_vars

\* a commit made by a call of store_identifiers brings all of its writes
commits_whole_call ==
    \A p \in Procs :
        ( /\ proc[p].pc = "si_queried"
          /\ proc'[p].pc # "si_queried"
          /\ db' # db ) =>
            db' = store_identifiers_after(db, proc[p].found, proc[p].arg.author_id,
                      proc[p].arg.orcid, proc[p].arg.email, proc[p].arg.match_status)

\* C16: identifier storage is a single transaction: no state is committed
\* in which only part of one call's writes (merge candidate, ORCID row,
\* email row) is present, so an interrupted call leaves the state as it was.
C16_IdentifierStorageAtomic == [][commits_whole_call]_vars

(***************************************************************************)
(* Publications.                                                           *)
(***************************************************************************)
\* publication payloads as _fetch_publications builds them: the title can
\* be missing or empty, the DOI missing
MaxCitations == 2
PubTitles == {NULL, "", "T1", "T2"}
PubPayloads ==
    [title : PubTitles, doi : Dois \cup {NULL}, citations : 0..MaxCitations]
LoopPayloads ==
    [title : {NULL, "T1"}, doi : {"d1", NULL}, citations : {1}]

\* uuid4: ids no row has, in the order they are drawn
PubIdOrder == <<"p1", "p2", "p3">>
AllPubIds == {PubIdOrder[i] : i \in 1..Len(PubIdOrder)}
fresh_ids(d) == SelectSeq(PubIdOrder, LAMBDA x : x \notin PublicationIds(d))

\* process_researcher, the loop over the fetched publications for payloads
\* without coauthors: store_publication, "if pub_id is None: continue",
\* store_author_publication.  ok = FALSE: an exception left the loop
RECURSIVE process_publications(_, _, _, _)
process_publications(d, author_id, publications, fresh) ==
    IF publications = <<>>
    THEN [ok |-> TRUE, db |-> d]
    ELSE LET stored == store_publication(d, Head(publications), Head(fresh))
         IN  IF stored.ret = NULL
             THEN process_publications(d, author_id, Tail(publications), fresh)
             ELSE LET linked == store_author_publication(stored.db, author_id,
                                                         stored.ret)
                  IN  IF ~linked.ok
                      THEN [ok |-> FALSE, db |-> stored.db]
                      ELSE process_publications(linked.db, author_id,
                               Tail(publications),
                               IF stored.ret = Head(fresh) THEN Tail(fresh)
                                                           ELSE fresh)

\* store_publication(pub_data)
StorePublicationPayload ==
    /\ CanWrite
    /\ fresh_ids(db) # <<>>
    /\ \E pub_data \in PubPayloads :
        db' = store_publication(db, pub_data, Head(fresh_ids(db))).db
    /\ UNCHANGED <<session, issued, txn, cl, proc>>

\* the publication loop of process_researcher for one researcher
ProcessPublications ==
    /\ CanWrite
    /\ Len(fresh_ids(db)) >= 2
    /\ \E author_id \in issued, p1, p2 \in LoopPayloads :
        db' = process_publications(db, author_id, <<p1, p2>>, fresh_ids(db)).db
    /\ UNCHANGED <<session, issued, txn, cl, proc>>

NextPub ==
    \/ StoreResearcher(PlainResearchers)
    \/ StorePublicationPayload
    \/ ProcessPublications

SpecPub == Init /\ [][NextPub]_vars

has_title(pub_data) == Truthy(pub_data.title)
has_doi(pub_data) == Truthy(pub_data.doi)
RECURSIVE without_skipped(_)
without_skipped(publications) ==
    IF publications = <<>> THEN <<>>
    ELSE IF ~has_title(Head(publications)) /\ ~has_doi(Head(publications))
         THEN without_skipped(Tail(publications))
         ELSE <<Head(publications)>> \o without_skipped(Tail(publications))

\* C17: store_publication returns no id and writes no row exactly for the
\* payloads with neither a title nor a DOI; a payload with a DOI and no
\* title is stored under the placeholder title; and the publication loop
\* treats a list with rejected payloads as it treats the list without them.
C17_RejectsOnlyUnidentifiable ==
    /\ \A pub_data \in PubPayloads :
        fresh_ids(db) # <<>> =>
            LET stored == store_publication(db, pub_data, Head(fresh_ids(db)))
            IN  /\ (stored.ret = NULL) <=> (~has_title(pub_data) /\ ~has_doi(pub_data))
                /\ stored.ret = NULL => stored.db = db
                /\ stored.ret # NULL =>
                      \E r \in stored.db.publications :
                          /\ r.id = stored.ret
                          /\ r.doi = pub_data.doi
                          /\ (has_doi(pub_data) /\ ~has_title(pub_data)
                              /\ stored.ret \notin PublicationIds(db)) =>
                                  r.title = placeholder_title(pub_data.doi)
    /\ \A author_id \in issued, p1, p2 \in LoopPayloads :
        Len(fresh_ids(db)) >= 2 =>
            process_publications(db, author_id, <<p1, p2>>, fresh_ids(db))
              = process_publications(db, author_id, without_skipped(<<p1, p2>>),
                                     fresh_ids(db))

\* a list whose first payload is rejected has had its second payload stored
C17_Witness ==
    /\ \E r \in db.publications : r.title = placeholder_title("d1")
    /\ \E l \in db.author_publications, r \in db.publications :
        l.publication_id = r.id /\ r.doi = NULL

rows_of_doi(d, doi) == {r \in d.publications : r.doi = doi}

CollabYears == {2019, 2020, 2021}
CollabResearchers ==
    [given_name : {"A", "B", "C"}, family_name : {"S"}, middle_names : {NULL},
     institution : {"RPI"}, orcid : {NULL}, email : {NULL}]

\* update_collaboration_network(author1_id, author2_id, pub_year)
UpdateCollaborationNetworkYears ==
    /\ CanWrite
    /\ \E a1 \in issued, a2 \in issued, pub_year \in CollabYears :
        /\ a1 # a2
        /\ db' = update_collaboration_network(db, a1, a2, pub_year)
        /\ \A r \in db'.author_collaborations :
              r.collaboration_count <= MaxCollabCount
    /\ UNCHANGED <<session, issued, txn, cl, proc>>

NextCollab ==
    \/ StoreResearcher(CollabResearchers)
    \/ UpdateCollaborationNetworkYears

SpecCollab == Init /\ [][NextCollab]_vars

rows_of_pair(d, a, b) ==
    {r \in d.author_collaborations :
        {r.author1_id, r.author2_id} = {a, b}}

\* C19: each unordered pair of authors has one row, under the smaller id
\* first; calls with (a, b) and (b, a) affect that same row; the first
\* sighting creates it with count 1, a later sighting adds exactly 1 to the
\* count and moves first_collaboration / last_collaboration to the minimum /
\* maximum with the sighting's year.
C19_PairStoredOnce ==
    /\ \A r \in db.author_collaborations :
        /\ r.author1_id < r.author2_id
        /\ rows_of_pair(db, r.author1_id, r.author2_id) = {r}
    /\ \A a, b \in AuthorIds(db), pub_year \in CollabYears :
        a # b =>
            LET before == rows_of_pair(db, a, b)
                d2     == update_collaboration_network(db, a, b, pub_year)
                after  == rows_of_pair(d2, a, b)
            IN  /\ d2 = update_collaboration_network(db, b, a, pub_year)
                /\ Cardinality(after) = 1
                /\ d2.author_collaborations \ after
                       = db.author_collaborations \ before
                /\ \A r \in after :
                    /\ r.author1_id < r.author2_id
                    /\ before = {} =>
                          /\ r.collaboration_count = 1
                          /\ r.first_collaboration = pub_year
                          /\ r.last_collaboration = pub_year
                    /\ \A e \in before :
                          /\ r.collaboration_count = e.collaboration_count + 1
                          /\ r.first_collaboration
                               = Min(e.first_collaboration, pub_year)
                          /\ r.last_collaboration
                               = Max(e.last_collaboration, pub_year)
                          /\ r.first_collaboration <= e.first_collaboration
                          /\ r.last_collaboration >= e.last_collaboration

\* a pair has been sighted twice, in different years
C19_Witness ==
    \E r \in db.author_collaborations :
        /\ r.collaboration_count = 2
        /\ r.first_collaboration = 2019
        /\ r.last_collaboration = 2021

(***************************************************************************)
(* parse_academic_name on its own.                                         *)
(***************************************************************************)
MaxNameLen == 7
NamePieces == {" ", "J", "S", "-", "Jr.", "I.V."}
Names == UNION {[1..n -> NamePieces] : n \in 0..MaxNameLen}

\* a caller runs parse_academic_name(full_name) and holds what it returned
ParseAcademicName ==
    /\ proc[1].pc = "idle"
    /\ \E full_name \in Names :
        proc' = [proc EXCEPT ![1] =
                    [pc |-> "returned", op |-> "parse_academic_name",
                     arg |-> full_name, found |-> {},
                     ret |-> parse_academic_name(full_name)]]
    /\ UNCHANGED <<session, db, issued, txn, cl>>

NextParse ==
    \/ ParseAcademicName
    \/ Return(1)

SpecParse == Init /\ [][NextParse]_vars

is_suffix_token(token) == lower_without_dots(token) \in suffixes

\* the tokens of a name that remain once a trailing suffix is taken off
remaining_tokens(tokens) ==
    IF Len(tokens) > 1 /\ is_suffix_token(tokens[Len(tokens)])
    THEN SubSeq(tokens, 1, Len(tokens) - 1)
    ELSE tokens

lower_without_trailing_dot(token) ==
    CASE token \in {"Jr", "Jr.", "jr", "JR"} -> "jr"
      [] token \in {"Sr", "Sr."} -> "sr"
      [] token \in {"II", "ii"} -> "ii"
      [] token \in {"III", "iii"} -> "iii"
      [] token \in {"IV", "iv"} -> "iv"
      [] token \in {"V", "v", "V."} -> "v"
      [] token = "I.V." -> "i.v"
      [] OTHER -> token

\* C21: the last token is taken as the suffix exactly when, lower-cased and
\* with a trailing '.' stripped, it is one of jr, sr, ii, iii, iv, v; then it
\* is returned as suffix and the remaining tokens give the given, family
\* and middle names; in every other case the suffix is None.  Stated for the names
\* of two tokens or more.
C21_SuffixExactlyKnownForms ==
    \A p \in Procs :
        (proc[p].pc = "returned" /\ proc[p].op = "parse_academic_name") =>
            LET tokens == split(proc[p].arg)
                parsed == proc[p].ret
                last   == tokens[Len(tokens)]
                others == SubSeq(tokens, 1, Len(tokens) - 1)
            IN  Len(tokens) >= 2 =>
                  IF lower_without_trailing_dot(last) \in suffixes
                  THEN /\ parsed.name_suffix = last
                       /\ parsed.given_name = others[1]
                       /\ parsed.family_name = others[Len(others)]
                       /\ parsed.middle_names =
                              IF Len(others) >= 3
                              THEN join(SubSeq(others, 2, Len(others) - 1))
                              ELSE NULL
                  ELSE parsed.name_suffix = NULL

(***************************************************************************)
(* ResearcherProcessor._calculate_h_index.                                 *)
(***************************************************************************)
\* the list with x put before the first element smaller than x
RECURSIVE insert_descending(_, _)
insert_descending(x, sorted) ==
    IF sorted = <<>> THEN <<x>>
    ELSE IF x >= Head(sorted) THEN <<x>> \o sorted
    ELSE <<Head(sorted)>> \o insert_descending(x, Tail(sorted))

\* the list left in the order of the publications
in_given_order(citations) == citations

\* sorted(citations, reverse=True)
RECURSIVE sorted_reverse(_)
sorted_reverse(citations) ==
    IF citations = <<>> THEN <<>>
    ELSE insert_descending(Head(citations), sorted_reverse(Tail(citations)))

\* "for i, citations_count in enumerate(citations, 1)": h_index after the
\* loop has run from position i
RECURSIVE h_index_loop(_, _, _)
h_index_loop(citations, i, h_index) ==
    IF i > Len(citations) THEN h_index
    ELSE IF citations[i] >= i
         THEN h_index_loop(citations, i + 1, i)
         ELSE h_index

\* _calculate_h_index, on the citation counts of the publications
calculate_h_index(citations) ==
    IF citations = <<>> THEN 0
    ELSE h_index_loop(sorted_reverse(citations), 1, 0)

MaxPublications == 5
CitationCounts == {0, 1, 2, 3, 4, 5, 8, 10}
CitationLists == UNION {[1..n -> CitationCounts] : n \in 0..MaxPublications}

\* a caller runs _calculate_h_index(publications) and holds what it returned
CalculateHIndex ==
    /\ proc[1].pc = "idle"
    /\ \E citations \in CitationLists :
        proc' = [proc EXCEPT ![1] =
                    [pc |-> "returned", op |-> "_calculate_h_index",
                     arg |-> citations, found |-> {},
                     ret |-> calculate_h_index(citations)]]
    /\ UNCHANGED <<session, db, issued, txn, cl>>

NextHIndex ==
    \/ CalculateHIndex
    \/ Return(1)

SpecHIndex == Init /\ [][NextHIndex]_vars

\* at least h publications of the list have at least h citations each
has_h(citations, h) ==
    Cardinality({i \in 1..Len(citations) : citations[i] >= h}) >= h

\* C22: _calculate_h_index returns the largest h such that at least h
\* publications have at least h citations each: 0 for the empty list, 4
\* for [10,8,5,4,3], 1 for [1,1,1]; so 0 <= h <= number of publications.
C22_HIndex ==
    \A p \in Procs :
        (proc[p].pc = "returned" /\ proc[p].op = "_calculate_h_index") =>
            LET citations == proc[p].arg
                h == proc[p].ret
            IN  /\ h \in 0..Len(citations)
                /\ has_h(citations, h)
                /\ \A k \in (h + 1)..Len(citations) : ~has_h(citations, k)
                /\ citations = <<>> => h = 0
                /\ citations = <<10, 8, 5, 4, 3>> => h = 4
                /\ citations = <<1, 1, 1>> => h = 1

\* the h-index of a list that is not in descending order has been computed
C22_Witness ==
    /\ proc[1].pc = "returned"
    /\ proc[1].op = "_calculate_h_index"
    /\ proc[1].arg = <<3, 4, 10, 5, 8>>
    /\ proc[1].ret = 4

(***************************************************************************)
(* ResearcherProcessor._find_orcid_match: from the registry's responses to *)
(* the ORCIDResult.  Names are sequences of tokens.                        *)
(***************************************************************************)
\* p.strip('.')[0] for the tokens of the model
first_letter(token) ==
    CASE token \in {"J.", "John", "J"} -> "J"
      [] token \in {"Q.", "Quincy", "Q"} -> "Q"
      [] OTHER -> token

\* ''.join([p.strip('.')[0] for p in parts]), letter by letter
initials(parts) == [i \in 1..Len(parts) |-> first_letter(parts[i])]

\* str.lower() for the family names of the model
lower(text) ==
    CASE text \in {"Smith", "smith", "SMITH"} -> "smith"
      [] text \in {"Jones", "jones"} -> "jones"
      [] text \in {"Smith Jr", "smith jr"} -> "smith jr"
      [] OTHER -> text

\* any(s in family_names for s in [' Jr', ' Sr', ' II', ' III'])
has_suffix_mark(family_names) == family_names \in {"Smith Jr", "smith jr"}

\* any(word in inst.lower() for word in faculty_inst.split()), for the
\* institutions of the model
word_of_institution_in(faculty_institution, inst) ==
    faculty_institution = "RPI" /\ inst \in {"RPI", "rpi", "RPI Troy"}

\* the institution test that the scoring loop and the status both use
institution_matches(faculty, match) ==
    /\ Truthy(faculty.institution)
    /\ match.institution_name # <<>>
    /\ \E i \in 1..Len(match.institution_name) :
          word_of_institution_in(faculty.institution, match.institution_name[i])

\* the three tiers of the initials comparison, in tenths
initials_score(faculty_initials, orcid_given) ==
    IF orcid_given = <<>> THEN 0
    ELSE LET orcid_initials == initials(orcid_given)
         IN  IF faculty_initials = orcid_initials THEN 4
             ELSE IF \A i \in 1..Len(faculty_initials) :
                        \E j \in 1..Len(orcid_initials) :
                            faculty_initials[i] = orcid_initials[j]
                  THEN 3
             ELSE IF /\ Len(faculty_initials) > 0
                     /\ Len(orcid_initials) > 0
                     /\ faculty_initials[1] = orcid_initials[1]
                  THEN 2
             ELSE 0

\* the sum without the family name's part
float_sum_without_family(family, initial, institution) ==
    10 * (initial + institution)

\* score = 0; score += 0.5; score += initials; score += 0.2 in binary
\* floating point, in hundredths: 0.5 + 0.2 + 0.2 is 0.8999999999999999 and
\* 0.4 + 0.2 is 0.6000000000000001, every other sum is the decimal one
float_sum(family, initial, institution) ==
    CASE <<family, initial, institution>> = <<5, 2, 2>> -> 89
      [] <<family, initial, institution>> = <<0, 4, 2>> -> 61
      [] OTHER -> 10 * (family + initial + institution)

\* the score of one candidate
match_score(faculty, match) ==
    float_sum(IF lower(match.family_names) = lower(faculty.name[Len(faculty.name)])
              THEN 5 ELSE 0,
              initials_score(initials(SubSeq(faculty.name, 1, Len(faculty.name) - 1)),
                             match.given_names),
              IF institution_matches(faculty, match) THEN 2 ELSE 0)

\* the scoring loop: "if score > best_score" from position i on
RECURSIVE best_of(_, _, _, _)
best_of(faculty, results, i, best) ==
    IF i > Len(results) THEN best
    ELSE LET score == match_score(faculty, results[i])
         IN  best_of(faculty, results, i + 1,
                     IF score > best.score
                     THEN [score |-> score, match |-> results[i]]
                     ELSE best)

\* "if best_score >= 0.6", in hundredths
accept_threshold == 60

\* the ORCIDResult, as far as callers read it
ORCIDResult(status, potential_matches, orcid) ==
    [status |-> status, potential_matches |-> potential_matches, orcid |-> orcid]

\* len(results) > 1: suffix disambiguation, then scoring.  verified is the
\* set of ORCID ids that _verify_institutional_affiliation confirms
several_results(faculty, results, verified) ==
    LET suffix_matches == SelectSeq(results,
                              LAMBDA r : has_suffix_mark(r.family_names))
        confirmed == {i \in 1..Len(suffix_matches) :
                          suffix_matches[i].orcid_id \in verified}
        best == best_of(faculty, results, 1, [score |-> 0, match |-> NULL])
    IN  IF confirmed # {}
        THEN LET match == suffix_matches[CHOOSE i \in confirmed :
                                             \A j \in confirmed : i <= j]
             IN  ORCIDResult("EXACT_MATCH_WITH_INSTITUTION", <<match>>,
                             match.orcid_id)
        ELSE IF best.score >= accept_threshold
        THEN ORCIDResult(
                 IF institution_matches(faculty, best.match)
                 THEN "EXACT_MATCH_WITH_INSTITUTION"
                 ELSE IF best.score > 80 THEN "EXACT_MATCH_DISTINCTIVE"
                 ELSE "EXACT_MATCH_COMMON_NAME",
                 <<best.match>>, best.match.orcid_id)
        ELSE ORCIDResult("MULTIPLE_MATCHES", results, NULL)

\* len(results) == 1
single_result(faculty, match, verified) ==
    ORCIDResult(IF match.orcid_id \in verified
                THEN "EXACT_MATCH_WITH_INSTITUTION"
                ELSE "EXACT_MATCH_DISTINCTIVE",
                <<match>>, match.orcid_id)

\* the loop over the name variants: responses[i] is what the registry
\* answers to the search for variant i (ok = FALSE: a status other than 200
\* or an exception; otherwise the list of results)
RECURSIVE find_orcid_match(_, _, _)
find_orcid_match(faculty, responses, verified) ==
    IF responses = <<>>
    THEN ORCIDResult("NO_MATCH", <<>>, NULL)
    ELSE LET results == Head(responses).results
         IN  IF ~Head(responses).ok \/ Len(results) = 0
             THEN find_orcid_match(faculty, Tail(responses), verified)
             ELSE IF Len(results) = 1
             THEN single_result(faculty, results[1], verified)
             ELSE several_results(faculty, results, verified)

\* _generate_name_variants: the full name, "first last" and, with middle
\* names, "first M. last"; a set, so equal variants count once
name_variants(name) ==
    IF Len(name) < 2 THEN {name}
    ELSE {name, <<name[1], name[Len(name)]>>}
         \cup (IF Len(name) = 3
               THEN {<<name[1], first_letter(name[2]) \o ".", name[3]>>}
               ELSE {})

FacultyMembers ==
    [name : {<<"Smith">>, <<"John", "Smith">>, <<"J.", "Q.", "Smith">>},
     institution : {NULL, "RPI"}]

\* the registry's candidates (<<>>: no given names, no institution names);
\* orcid_id is set by the position in the results
RegistryCandidates ==
    [family_names : {"smith", "Jones", "Smith Jr"},
     given_names : {<<>>, <<"John">>, <<"J.", "Q.">>, <<"Q.">>},
     institution_name : {<<>>, <<"RPI Troy">>, <<"MIT">>}]
OrcidIds == <<"O1", "O2", "O3">>
with_orcid_ids(candidates) ==
    [i \in 1..Len(candidates) |->
        [orcid_id |-> OrcidIds[i],
         family_names |-> candidates[i].family_names,
         given_names |-> candidates[i].given_names,
         institution_name |-> candidates[i].institution_name]]
MaxResults == 2
RegistryResponses ==
    {[ok |-> FALSE, results |-> <<>>]} \cup
    {[ok |-> TRUE, results |-> with_orcid_ids(c)] :
        c \in UNION {[1..n -> RegistryCandidates] : n \in 0..MaxResults}}
EmptyResponses ==
    {[ok |-> FALSE, results |-> <<>>], [ok |-> TRUE, results |-> <<>>]}

\* _verify_institutional_affiliation confirms nothing for a faculty member
\* without institution (institution.lower() raises and False is returned)
Verifiable(faculty) ==
    IF faculty.institution = NULL THEN {{}} ELSE SUBSET {"O1", "O2"}

\* a caller runs _find_orcid_match(faculty) and holds what it returned; the
\* searches before the last one find nothing
FindOrcidMatch ==
    /\ proc[1].pc = "idle"
    /\ \E faculty \in FacultyMembers :
        \E before \in EmptyResponses, last \in RegistryResponses,
           verified \in Verifiable(faculty) :
            LET responses == IF Cardinality(name_variants(faculty.name)) = 1
                             THEN <<last>> ELSE <<before, last>>
            IN  proc' = [proc EXCEPT ![1] =
                    [pc |-> "returned", op |-> "_find_orcid_match",
                     arg |-> [faculty |-> faculty, responses |-> responses,
                              verified |-> verified],
                     found |-> {},
                     ret |-> find_orcid_match(faculty, responses, verified)]]
    /\ UNCHANGED <<session, db, issued, txn, cl>>

NextMatch ==
    \/ FindOrcidMatch
    \/ Return(1)

SpecMatch == Init /\ [][NextMatch]_vars

ExactMatches == {"EXACT_MATCH_WITH_INSTITUTION", "EXACT_MATCH_DISTINCTIVE",
                 "EXACT_MATCH_COMMON_NAME"}

\* the candidate's score in tenths: 0.5 for the family name, up to 0.4 for
\* the initials, 0.2 for the institution
tenths(faculty, match) ==
    (IF lower(match.family_names) = lower(faculty.name[Len(faculty.name)])
     THEN 5 ELSE 0)
    + initials_score(initials(SubSeq(faculty.name, 1, Len(faculty.name) - 1)),
                     match.given_names)
    + (IF institution_matches(faculty, match) THEN 2 ELSE 0)

\* suffix disambiguation applies: a candidate with a suffix mark is confirmed
suffix_disambiguation(results, verified) ==
    \E i \in 1..Len(results) :
        has_suffix_mark(results[i].family_names) /\ results[i].orcid_id \in verified

\* C23: with more than one candidate and no suffix disambiguation an ORCID
\* is chosen only if the highest score is >= 0.6, with status
\* EXACT_MATCH_WITH_INSTITUTION for an institution match, else
\* EXACT_MATCH_DISTINCTIVE for a score > 0.8, else EXACT_MATCH_COMMON_NAME;
\* otherwise the result is MULTIPLE_MATCHES with all candidates and no ORCID.
\* In every result an ORCID is present iff the status is an EXACT_MATCH one.
C23_ChosenOnlyAboveThreshold ==
    \A p \in Procs :
        (proc[p].pc = "returned" /\ proc[p].op = "_find_orcid_match") =>
            LET faculty == proc[p].arg.faculty
                results == proc[p].arg.responses[Len(proc[p].arg.responses)].results
                res     == proc[p].ret
                highest == CHOOSE s \in {tenths(faculty, results[i]) :
                                            i \in 1..Len(results)} :
                               \A i \in 1..Len(results) :
                                   s >= tenths(faculty, results[i])
            IN  /\ (res.orcid # NULL) <=> (res.status \in ExactMatches)
                /\ (Len(results) > 1
                    /\ ~suffix_disambiguation(results, proc[p].arg.verified)) =>
                      IF highest >= 6
                      THEN \E i \in 1..Len(results) :
                              /\ res.orcid = results[i].orcid_id
                              /\ tenths(faculty, results[i]) = highest
                              /\ res.status =
                                   IF institution_matches(faculty, results[i])
                                   THEN "EXACT_MATCH_WITH_INSTITUTION"
                                   ELSE IF highest > 8
                                   THEN "EXACT_MATCH_DISTINCTIVE"
                                   ELSE "EXACT_MATCH_COMMON_NAME"
                      ELSE /\ res.status = "MULTIPLE_MATCHES"
                           /\ res.potential_matches = results
                           /\ res.orcid = NULL

\* of two candidates the second has been chosen, as a common name
C23_Witness ==
    /\ proc[1].pc = "returned"
    /\ proc[1].op = "_find_orcid_match"
    /\ proc[1].ret.status = "EXACT_MATCH_COMMON_NAME"
    /\ proc[1].ret.orcid = "O2"

(***************************************************************************)
(* _find_orcid_match request by request: the searches, the employment      *)
(* lookups of _verify_institutional_affiliation and asyncio.sleep(1).      *)
(***************************************************************************)
SearchCandidates ==
    [family_names : {"smith", "Smith Jr"}, given_names : {<<"John">>},
     institution_name : {<<>>}]
SearchResponses ==
    {[ok |-> FALSE, results |-> <<>>]} \cup
    {[ok |-> TRUE, results |-> with_orcid_ids(c)] :
        c \in UNION {[1..n -> SearchCandidates] : n \in 0..MaxResults}}

\* the matches that the response at hand sends to
\* _verify_institutional_affiliation, in order
to_verify(results) ==
    IF Len(results) = 1 THEN results
    ELSE SelectSeq(results, LAMBDA r : has_suffix_mark(r.family_names))

\* _find_orcid_match(faculty) is called: the variants are generated
MatchBegin ==
    /\ session.pc = "idle"
    /\ \E faculty \in FacultyMembers :
        \E responses \in [1..Cardinality(name_variants(faculty.name))
                              -> SearchResponses],
           verified \in Verifiable(faculty) :
            session' = [session EXCEPT !.pc = "search", !.faculty = faculty,
                                       !.responses = responses,
                                       !.verified = verified]
    /\ UNCHANGED <<db, issued, txn, cl, proc>>

\* session.get(url) for the next variant, and what follows the response up
\* to the next request, sleep or return
SearchRequest ==
    /\ session.pc = "search"
    /\ session.responses # <<>>
    /\ LET response == Head(session.responses)
           pending == to_verify(response.results)
           sent == [session EXCEPT !.last = "requested"]
       IN  session' =
             IF ~response.ok
             THEN [sent EXCEPT !.responses = Tail(session.responses)]
             ELSE IF Len(response.results) = 0
             THEN [sent EXCEPT !.pc = "sleep"]
             ELSE IF pending # <<>>
             THEN [sent EXCEPT !.pc = "verify", !.pending = pending]
             ELSE [sent EXCEPT !.pc = "returned",
                     !.result = find_orcid_match(session.faculty,
                                    session.responses, session.verified)]
    /\ UNCHANGED <<db, issued, txn, cl, proc>>

\* _verify_institutional_affiliation: session.get of the employments
VerifyRequest ==
    /\ session.pc = "verify"
    /\ LET match == Head(session.pending)
           sent == [session EXCEPT !.last = "requested"]
       IN  session' =
             IF /\ Len(Head(session.responses).results) > 1
                /\ match.orcid_id \notin session.verified
                /\ Tail(session.pending) # <<>>
             THEN [sent EXCEPT !.pending = Tail(session.pending)]
             ELSE [sent EXCEPT !.pc = "returned", !.pending = <<>>,
                     !.result = find_orcid_match(session.faculty,
                                    session.responses, session.verified)]
    /\ UNCHANGED <<db, issued, txn, cl, proc>>

\* await asyncio.sleep(1) at the end of the loop body
RateLimitSleep ==
    /\ session.pc = "sleep"
    /\ session' = [session EXCEPT !.last = "quiet", !.pc = "search",
                                  !.responses = Tail(@)]
    /\ UNCHANGED <<db, issued, txn, cl, proc>>

\* the variants are used up: NO_MATCH
NoMatch ==
    /\ session.pc = "search"
    /\ session.responses = <<>>
    /\ session' = [session EXCEPT !.pc = "returned",
                                  !.result = ORCIDResult("NO_MATCH", <<>>, NULL)]
    /\ UNCHANGED <<db, issued, txn, cl, proc>>

\* the caller takes the result; main sleeps before the next faculty member
MatchReturn ==
    /\ session.pc = "returned"
    /\ session' = [session EXCEPT !.pc = "idle", !.last = "quiet"]
    /\ UNCHANGED <<db, issued, txn, cl, proc>>

NextRequests ==
    \/ MatchBegin
    \/ SearchRequest
    \/ VerifyRequest
    \/ RateLimitSleep
    \/ NoMatch
    \/ MatchReturn

SpecRequests == Init /\ [][NextRequests]_vars

\* the step sends a request to the registry: a search or an employment lookup
RegistryRequest ==
    /\ \/ session.pc = "search" /\ session.responses # <<>>
       \/ session.pc = "verify"
    /\ session' # session

\* C24: every request of _find_orcid_match to the registry (name search,
\* employment lookup) is followed by the 1-unit delay before the next
\* request is issued, whatever its outcome.
C24_DelayAfterEveryRequest ==
    [][RegistryRequest => session.last = "quiet"]_vars

(***************************************************************************)
(* ResearcherProcessor.process_researcher.                                 *)
(***************************************************************************)
\* UPDATE authors SET h_index = ?, total_citations = ? WHERE id = ?
update_author_metrics(d, author_id, h_index, total_citations) ==
    [d EXCEPT !.authors =
        {IF r.id = author_id
         THEN [r EXCEPT !.h_index = h_index, !.total_citations = total_citations]
         ELSE r : r \in @}]

\* [pub.get('citations', 0) for pub in publications]
citations_of(publications) ==
    [i \in 1..Len(publications) |-> publications[i].citations]

\* the publications that the h-index is computed from: the list that
\* _fetch_publications returned
h_index_publications(publications) == publications

\* total_citations after a loop that ran to its end: "total_citations +=
\* pub.get('citations', 0)" is reached for the publications not skipped
RECURSIVE total_citations_of(_)
total_citations_of(publications) ==
    IF publications = <<>> THEN 0
    ELSE (IF skipped(Head(publications)) THEN 0 ELSE Head(publications).citations)
         + total_citations_of(Tail(publications))

\* process_researcher(faculty), given the ORCIDResult of _find_orcid_match
\* and the list of _fetch_publications; ret = None: the except clause
process_researcher(d, faculty, orcid_result, publications, new_id, fresh) ==
    LET researcher == IF Truthy(orcid_result.orcid)
                      THEN [faculty EXCEPT !.orcid = orcid_result.orcid]
                      ELSE faculty
        stored == store_researcher(d, researcher, new_id)
        author_id == stored.ret
        identified == IF Truthy(orcid_result.orcid)
                      THEN store_identifiers(stored.db, author_id, orcid_result.orcid,
                                             faculty.email, orcid_result.status)
                      ELSE stored.db
        loop == process_publications(identified, author_id, publications, fresh)
    IN  IF author_id = RAISED THEN [db |-> stored.db, ret |-> None]
        ELSE IF ~Truthy(orcid_result.orcid) THEN [db |-> identified, ret |-> author_id]
        ELSE IF ~loop.ok THEN [db |-> loop.db, ret |-> None]
        ELSE [db |-> update_author_metrics(loop.db, author_id,
                         calculate_h_index(citations_of(
                             h_index_publications(publications))),
                         total_citations_of(publications)),
              ret |-> author_id]

ProcessFaculty ==
    [given_name : {"A", "B"}, family_name : {"S"}, middle_names : {NULL},
     institution : {"RPI"}, orcid : {NULL}, email : {NULL}]
OrcidResults ==
    {ORCIDResult("NO_MATCH", <<>>, NULL),
     ORCIDResult("EXACT_MATCH_DISTINCTIVE", <<>>, "X")}
MaxFetched == 2
FetchedPayloads ==
    [title : {NULL, "T1"}, doi : {NULL, "d1"}, citations : {1}]
FetchedPublications ==
    UNION {[1..n -> FetchedPayloads] : n \in 0..MaxFetched}

\* process_researcher(faculty)
ProcessResearcher ==
    /\ CanWrite
    /\ \E faculty \in ProcessFaculty, orcid_result \in OrcidResults,
          publications \in FetchedPublications :
        /\ Len(fresh_ids(db)) >= Len(publications)
        /\ \E new_id \in NewIds(lookup_author(db, faculty)) :
            LET res == process_researcher(db, faculty, orcid_result, publications,
                                          new_id, fresh_ids(db))
            IN  /\ db' = res.db
                /\ issued' = issued \cup (AuthorIds(res.db) \ AuthorIds(db))
    /\ UNCHANGED <<session, txn, cl, proc>>

NextProcess == ProcessResearcher

SpecProcess == Init /\ [][NextProcess]_vars

\* the fetched publications that were stored and linked to the researcher
attached_publications(publications) ==
    SelectSeq(publications, LAMBDA pub : ~skipped(pub))

\* C26: the h-index and total_citations that process_researcher stores are
\* computed from exactly the publications attached to the researcher; a
\* fetched publication that was rejected contributes to neither.
C26_MetricsFromAttachedPublications ==
    \A faculty \in ProcessFaculty, orcid_result \in OrcidResults,
       publications \in FetchedPublications :
        Len(fresh_ids(db)) >= Len(publications) =>
            \A new_id \in NewIds(lookup_author(db, faculty)) :
                LET res == process_researcher(db, faculty, orcid_result,
                                              publications, new_id, fresh_ids(db))
                    attached == attached_publications(publications)
                IN  (res.ret # None /\ Truthy(orcid_result.orcid)) =>
                        \A a \in res.db.authors :
                            a.id = res.ret =>
                                /\ a.h_index =
                                     calculate_h_index(citations_of(attached))
                                /\ a.total_citations =
                                     total_citations_of(attached)

\* a publication of the list is already linked to the faculty member's
\* record, or the list has the same DOI twice
reingested(d, faculty, publications) ==
    \/ \E a \in lookup_author(d, faculty), i \in 1..Len(publications) :
        \E row \in rows_of_doi(d, publications[i].doi) :
            /\ has_doi(publications[i])
            /\ \E l \in d.author_publications :
                  l.author_id = a /\ l.publication_id = row.id
    \/ \E i, j \in 1..Len(publications) :
        i < j /\ has_doi(publications[i]) /\ publications[i].doi = publications[j].doi

\* C30: when process_researcher meets a publication (same DOI) already
\* linked to the same author, in a second run or as a duplicate within one
\* fetch, the existing links stay as they are, the remaining publications
\* are still processed, the metrics are updated and the author id is
\* returned.
C30_ReingestionHarmless ==
    \A faculty \in ProcessFaculty, orcid_result \in OrcidResults,
       publications \in FetchedPublications :
        ( /\ Truthy(orcid_result.orcid)
          /\ Len(fresh_ids(db)) >= Len(publications)
          /\ reingested(db, faculty, publications) ) =>
            \A new_id \in NewIds(lookup_author(db, faculty)) :
                LET res == process_researcher(db, faculty, orcid_result,
                                              publications, new_id, fresh_ids(db))
                IN  /\ res.ret # None
                    /\ db.author_publications \subseteq res.db.author_publications
                    /\ \A i \in 1..Len(publications) :
                          has_doi(publications[i]) =>
                              \E row \in rows_of_doi(res.db, publications[i].doi),
                                 l \in res.db.author_publications :
                                  l.author_id = res.ret /\ l.publication_id = row.id
                    /\ \A a \in res.db.authors :
                          a.id = res.ret =>
                              a.total_citations = total_citations_of(publications)

(***************************************************************************)
(* process_faculty.main: the loop over the faculty members of a category.  *)
(***************************************************************************)
MaxCategory == 3

\* entries of faculty_data[category] as json.load returns them: a dict
\* with a 'name', or one without
FacultyEntries ==
    [has_name : {TRUE}, researcher : ProcessFaculty]
        \cup {[has_name |-> FALSE,
               researcher |-> [given_name |-> NULL, family_name |-> NULL,
                               middle_names |-> NULL, institution |-> "RPI",
                               orcid |-> NULL, email |-> NULL]]}
Categories == UNION {[1..n -> FacultyEntries] : n \in 0..MaxCategory}

\* "for faculty in faculty_data[category]" reaches the entries one after
\* the other, whatever happened to the one before
after_this_one(todo) == Tail(todo)

\* success_count = 0, failure_count = 0, before the first entry
MainBegin ==
    /\ proc[1].pc = "idle"
    /\ db = EmptyDb
    /\ \E category \in Categories :
        proc' = [proc EXCEPT ![1] =
                    [pc |-> "loop", op |-> "main", arg |-> category,
                     found |-> {}, ret |-> RAISED, todo |-> category,
                     processed |-> <<>>, success_count |-> 0,
                     failure_count |-> 0]]
    /\ UNCHANGED <<session, db, issued, txn, cl>>

\* one pass of the loop body.  faculty['name'] raises KeyError for an
\* entry without a name: in the try block it leads to the except clause,
\* whose own faculty['name'] raises out of main.  process_researcher
\* itself returns None instead of raising for an entry with a name.
MainIteration ==
    /\ proc[1].pc = "loop"
    /\ proc[1].op = "main"
    /\ proc[1].todo # <<>>
    /\ CanWrite
    /\ LET faculty == Head(proc[1].todo)
           index == Len(proc[1].arg) - Len(proc[1].todo) + 1
       IN  IF ~faculty.has_name
           THEN /\ proc' = [proc EXCEPT ![1].pc = "raised",
                                        ![1].processed = Append(@, index)]
                /\ UNCHANGED <<db, issued>>
           ELSE \E orcid_result \in OrcidResults,
                   publications \in FetchedPublications :
                    /\ Len(fresh_ids(db)) >= Len(publications)
                    /\ \E new_id \in NewIds(lookup_author(db, faculty.researcher)) :
                        LET res == process_researcher(db, faculty.researcher,
                                       orcid_result, publications, new_id,
                                       fresh_ids(db))
                        IN  /\ db' = res.db
                            /\ issued' = issued \cup (AuthorIds(res.db) \ AuthorIds(db))
                            /\ proc' = [proc EXCEPT
                                 ![1].todo = after_this_one(@),
                                 ![1].processed = Append(@, index),
                                 ![1].success_count =
                                     IF res.ret # None THEN @ + 1 ELSE @,
                                 ![1].failure_count =
                                     IF res.ret # None THEN @ ELSE @ + 1]
    /\ UNCHANGED <<session, txn, cl>>

\* "Category ... complete. Success: ..., Failure: ..."
MainComplete ==
    /\ proc[1].pc = "loop"
    /\ proc[1].op = "main"
    /\ proc[1].todo = <<>>
    /\ proc' = [proc EXCEPT ![1].pc = "complete"]
    /\ UNCHANGED <<session, db, issued, txn, cl>>

NextMain ==
    \/ MainBegin
    \/ MainIteration
    \/ MainComplete

SpecMain == Init /\ [][NextMain]_vars

\* C25: the batch never stops at a failing researcher: the faculty members
\* of a category are processed one after the other, each exactly once, a
\* failure is counted and the next one is processed, and when the category
\* is finished success_count + failure_count is the number of its members.
C25_BatchNeverStops ==
    proc[1].op = "main" =>
        LET counted == proc[1].success_count + proc[1].failure_count
        IN  /\ proc[1].pc \in {"loop", "complete"}
            /\ proc[1].processed = [i \in 1..counted |-> i]
            /\ counted = Len(proc[1].arg) - Len(proc[1].todo)
            /\ proc[1].pc = "complete" => counted = Len(proc[1].arg)

\* C29: after any sequence of collaboration updates and approved merges
\* executed by cleanup_database, author_collaborations has at most one row
\* per unordered pair of researchers, every row has author1_id smaller
\* than author2_id, and no row links a researcher to itself.
C29_CollaborationsStayCanonical ==
    /\ \A r \in db.author_collaborations : r.author1_id < r.author2_id
    /\ \A r, s \in db.author_collaborations :
          {r.author1_id, r.author2_id} = {s.author1_id, s.author2_id} => r = s

(***************************************************************************)
(* AcademicFieldManager.calculate_field_scores.                            *)
(***************************************************************************)
MaxScoredPublications == 2

\* the rows of fields JOIN field_keywords, as keyword_map holds them
ScoredFields == {"f1", "f2", "f3"}
Keywords == {"k1", "k2", "k3"}
keyword_map ==
    [keyword \in Keywords |->
        CASE keyword = "k1" -> {"f1"}
          [] keyword = "k2" -> {"f2"}
          [] OTHER          -> {"f1", "f3"}]

\* calculate_publication_impact of a publication, in units of the weight
\* 1.0 of a journal article (a float, with a whole value here: 1.0 for an
\* article without citations, 10.0 for one with 900), and the keywords
\* that occur in its title and concepts
Impacts == {1, 2, 10, 20}
ScoredPublications == [impact : Impacts, text : SUBSET Keywords]
ScoredPublicationLists ==
    UNION {[1..n -> ScoredPublications] : n \in 0..MaxScoredPublications}

\* "scores[field_id] += impact" for every keyword found in the text and
\* every field of the keyword; a field that never matched has no entry
matched_fields(publications) ==
    {f \in ScoredFields :
        \E i \in 1..Len(publications) :
            \E k \in publications[i].text : f \in keyword_map[k]}

RECURSIVE score_of(_, _)
score_of(publications, field_id) ==
    IF publications = <<>> THEN 0
    ELSE Head(publications).impact
             * Cardinality({k \in Head(publications).text :
                               field_id \in keyword_map[k]})
         + score_of(Tail(publications), field_id)

RECURSIVE max_of(_)
max_of(S) ==
    LET x == CHOOSE y \in S : TRUE
    IN  IF S = {x} THEN x
        ELSE IF x > max_of(S \ {x}) THEN x ELSE max_of(S \ {x})

\* "if score > max_score * 0.1": for whole values the product is max/10
\* up to one rounding step, so the comparison is that of 10 * score with
\* max_score
above_tenth(score, max_score) == score * 10 > max_score

\* score / max_score, kept as the pair of its operands: the quotient is
\* 1.0 exactly when they are equal
quotient(score, max_score) == [num |-> score, den |-> max_score]

calculate_field_scores(publications) ==
    LET fields == matched_fields(publications)
        max_score == max_of({score_of(publications, f) : f \in fields})
        kept == {f \in fields :
                    above_tenth(score_of(publications, f), max_score)}
    IN  IF fields # {}
        THEN [f \in kept |-> quotient(score_of(publications, f), max_score)]
        ELSE [f \in {} |-> quotient(0, 1)]

\* a caller runs calculate_field_scores(publications, config) and holds
\* what it returned
CalculateFieldScores ==
    /\ proc[1].pc = "idle"
    /\ \E publications \in ScoredPublicationLists :
        proc' = [proc EXCEPT ![1] =
                    [pc |-> "returned", op |-> "calculate_field_scores",
                     arg |-> publications, found |-> {},
                     ret |-> calculate_field_scores(publications)]]
    /\ UNCHANGED <<session, db, issued, txn, cl>>

NextFields ==
    \/ CalculateFieldScores
    \/ Return(1)

SpecFields == Init /\ [][NextFields]_vars

\* C27: whenever any field matched, the best field of the returned scores
\* is exactly 1.0, every kept field is its raw score divided by the maximum
\* raw score, and exactly the fields whose raw score is below 10% of the
\* maximum are dropped: a field at 10% or more is kept.
C27_NormalizedAndFiltered ==
    (proc[1].op = "calculate_field_scores"
        /\ matched_fields(proc[1].arg) # {}) =>
        LET publications == proc[1].arg
            fields == matched_fields(publications)
            max_score == max_of({score_of(publications, f) : f \in fields})
        IN  /\ DOMAIN proc[1].ret =
                 {f \in fields : score_of(publications, f) * 10 >= max_score}
            /\ \A f \in DOMAIN proc[1].ret :
                  proc[1].ret[f] = [num |-> score_of(publications, f),
                                    den |-> max_score]
            /\ \E f \in DOMAIN proc[1].ret :
                  proc[1].ret[f].num = proc[1].ret[f].den

(***************************************************************************)
(* ResearchMetricsConfig: the defaults of __init__ and load_config.        *)
(* Weights are in hundredths.                                              *)
(***************************************************************************)
default_publication_weights ==
    [x \in {"journal-article", "proceedings-article", "book-chapter", "book",
            "dissertation", "preprint", "default"} |->
        CASE x \in {"journal-article", "book"} -> 100
          [] x = "proceedings-article"         -> 70
          [] x = "book-chapter"                -> 80
          [] x = "preprint"                    -> 30
          [] OTHER                             -> 50]

tier(min_citations_per_work, weight) ==
    [k \in {"min_citations_per_work", "weight"} |->
        IF k = "weight" THEN weight ELSE min_citations_per_work]

default_venue_impact_levels ==
    [x \in {"very_high", "high", "medium", "standard", "low"} |->
        CASE x = "very_high" -> tier(50, 250)
          [] x = "high"      -> tier(25, 200)
          [] x = "medium"    -> tier(10, 150)
          [] x = "standard"  -> tier(5, 100)
          [] OTHER           -> tier(0, 70)]

default_network_params ==
    [x \in {"max_depth", "min_collaborations", "recent_year_threshold"} |->
        CASE x = "max_depth"          -> 2
          [] x = "min_collaborations" -> 2
          [] OTHER                    -> 5]

default_config ==
    [publication_weights |-> default_publication_weights,
     venue_impact_levels |-> default_venue_impact_levels,
     network_params |-> default_network_params]

\* dicts whose keys are some of the given ones, with values of V
dicts(keys, V) == UNION {[K -> V] : K \in SUBSET keys}

\* configuration documents: each section may be missing, and a section
\* names some keys only; a tier is a dict of some of the two tier keys
ConfigSections == {"publication_weights", "venue_impact_levels", "network_params"}
TierDocs == dicts({"min_citations_per_work", "weight"}, {30})
ConfigDocs ==
    {doc \in [present : SUBSET ConfigSections,
              publication_weights : dicts({"preprint"}, {40}),
              venue_impact_levels : dicts({"high", "low"}, TierDocs),
              network_params : dicts({"max_depth"}, {3})] :
        \A s \in ConfigSections \ doc.present : DOMAIN doc[s] = {}}

\* dict.update(other): the value of every key of other replaces the one
\* of the dict, whatever it was
update(dict, other) ==
    [k \in DOMAIN dict \cup DOMAIN other |->
        IF k \in DOMAIN other THEN other[k] ELSE dict[k]]

\* load_config after json.load returned the document
load_config(config, doc) ==
    [publication_weights |->
         IF "publication_weights" \in doc.present
         THEN update(config.publication_weights, doc.publication_weights)
         ELSE config.publication_weights,
     venue_impact_levels |->
         IF "venue_impact_levels" \in doc.present
         THEN update(config.venue_impact_levels, doc.venue_impact_levels)
         ELSE config.venue_impact_levels,
     network_params |->
         IF "network_params" \in doc.present
         THEN update(config.network_params, doc.network_params)
         ELSE config.network_params]

EmptyDoc ==
    [present |-> {}, publication_weights |-> <<>>,
     venue_impact_levels |-> <<>>, network_params |-> <<>>]

\* ResearchMetricsConfig(config_path) with a readable document
LoadConfig ==
    /\ proc[1].pc = "idle"
    /\ \E doc \in ConfigDocs :
        proc' = [proc EXCEPT ![1] =
                    [pc |-> "returned", op |-> "load_config", arg |-> doc,
                     found |-> {}, ret |-> load_config(default_config, doc)]]
    /\ UNCHANGED <<session, db, issued, txn, cl>>

\* FileNotFoundError or JSONDecodeError: logged, the defaults stay
LoadConfigFailed ==
    /\ proc[1].pc = "idle"
    /\ proc' = [proc EXCEPT ![1] =
                    [pc |-> "returned", op |-> "load_config_failed",
                     arg |-> EmptyDoc, found |-> {}, ret |-> default_config]]
    /\ UNCHANGED <<session, db, issued, txn, cl>>

NextConfig ==
    \/ LoadConfig
    \/ LoadConfigFailed
    \/ Return(1)

SpecConfig == Init /\ [][NextConfig]_vars

\* the document sets key k of section s
mentions(doc, s, k) == s \in doc.present /\ k \in DOMAIN doc[s]

\* C28: loading a partial configuration document keeps every default that
\* the document does not mention, at every nesting level: a document that
\* sets only the weight of the venue impact tier 'high' leaves that tier's
\* min_citations_per_work and all other tiers and sections at their
\* defaults.
C28_PartialDocumentKeepsDefaults ==
    proc[1].op = "load_config" =>
        LET doc == proc[1].arg
            loaded == proc[1].ret
        IN  /\ \A s \in {"publication_weights", "network_params"} :
                  \A k \in DOMAIN default_config[s] :
                      ~mentions(doc, s, k) =>
                          /\ k \in DOMAIN loaded[s]
                          /\ loaded[s][k] = default_config[s][k]
            /\ \A t \in DOMAIN default_venue_impact_levels :
                  \A k \in DOMAIN default_venue_impact_levels[t] :
                      ~(/\ mentions(doc, "venue_impact_levels", t)
                        /\ k \in DOMAIN doc.venue_impact_levels[t]) =>
                          /\ t \in DOMAIN loaded.venue_impact_levels
                          /\ k \in DOMAIN loaded.venue_impact_levels[t]
                          /\ loaded.venue_impact_levels[t][k]
                                 = default_venue_impact_levels[t][k]

=============================================================================
